---- MODULE Spec2Model ----
(***************************************************************************)
(* A model of mdview: the host process (src/bun/index.ts), the Render      *)
(* Surface (src/main-ui/index.ts and its variants) and the pure helpers    *)
(* they call (path resolution, project-root search, PDF pagination).       *)
(*                                                                         *)
(* Paths are modelled as records [abs, segs]: "/p/a.md" is                 *)
(* [abs |-> TRUE, segs |-> <<"p", "a.md">>], "l/../a.md" is                *)
(* [abs |-> FALSE, segs |-> <<"l", "..", "a.md">>].  An optional value     *)
(* (string | null) is a set with at most one element: {} is null.          *)
(*                                                                         *)
(* Five specifications share the variables:                                *)
(*   Spec      the host and the Render Surface exchanging messages         *)
(*   SpecRead  one call of readFile on an arbitrary raw path               *)
(*   SpecRoot  one call of findProjectRoot, a loop iteration per step      *)
(*   SpecPdf   one call of generatePDF, a loop iteration per step          *)
(*   SpecCli   one run of the command line tool (src/cli.ts)               *)
(***************************************************************************)
EXTENDS Integers, Sequences, FiniteSets, Bags, TLC

\* ------------------------------------------------------------------------
\* Bounds
\* ------------------------------------------------------------------------

\* longest raw path (in segments) handed to readFile / findProjectRoot
MaxSegs == 3

\* largest canvas handed to generatePDF, in pixels
MaxImgWidth == 3

MaxImgHeight == 12

\* user events (menu clicks, opens, drops) in one session of the application
MaxEvents == 1

\* most file arguments on a command line
MaxFiles == 3

\* most characters in the src attribute of an img element
MaxSrcLen == 5

\* ------------------------------------------------------------------------
\* Optional values
\* ------------------------------------------------------------------------

Null == {}

Some(x) == {x}

The(s) == CHOOSE x \in s : TRUE

\* ------------------------------------------------------------------------
\* State
\* ------------------------------------------------------------------------

VARIABLES
    cwd,        \* the host's working directory (a member of Dirs)
    gitDirs,    \* the directories that contain a ".git" entry
    rfPath,     \* readFile: the path argument
    rfResult,   \* readFile: what the call produced ({} before the call)
    fprPath,    \* findProjectRoot: the filePath argument
    fprPc,      \* findProjectRoot: "start", "loop" or "done"
    fprDir,     \* findProjectRoot: the local variable dir
    fprIters,   \* findProjectRoot: loop iterations begun so far
    fprResult   \* findProjectRoot: the returned value once fprPc = "done"

VARIABLES
    imgWidth,        \* generatePDF: canvas.width
    imgHeight,       \* generatePDF: canvas.height
    pdfPc,           \* generatePDF: "start", "loop" or "done"
    scale,           \* generatePDF: usableWidth / imgWidth (a double)
    remainingHeight, \* generatePDF: source rows not yet placed (a double)
    sourceY,         \* generatePDF: top of the next band (a double)
    isFirstPage,     \* generatePDF: no band placed yet
    pdfPages,        \* generatePDF: pages in the jsPDF document
    bands            \* generatePDF: the slices drawn so far, in order

\* one img element of a document being rendered (renderMarkdown)
VARIABLES
    imgSrc,      \* renderMarkdown: img.getAttribute("src"), {} if there is none
    imgBaseDir,  \* renderMarkdown: currentBaseDir at the time of the call
    imgOut,      \* renderMarkdown: the src of the element after the call
    imgPc        \* renderMarkdown: "parsed" or "rendered"

\* the host process (src/bun/index.ts)
VARIABLES
    hostStarted,  \* the module body has run (lines 377-395)
    menuState,    \* menuState
    menu,         \* the menu last given to ApplicationMenu.setApplicationMenu
    winTitle,     \* the window title
    hostDialogs,  \* open-file dialogs of the open_file click still open
    clipboard,    \* the text last written to the clipboard
    revealed,     \* the path last shown in Finder
    initialFile   \* the file argument on the host's command line

\* the Render Surface (src/main-ui/index.ts)
VARIABLES
    viewStarted,         \* the module body has run
    currentFilePath,
    currentBaseDir,
    currentProjectRoot,
    contentEl,           \* what the #content element shows
    bodyClass,           \* document.body.className
    storedFont,          \* localStorage "mdview-font"
    lastAlert,           \* the text of the last alert()
    readers              \* FileReader loads of dropped files in progress

\* the IPC channel
VARIABLES
    toView,   \* one-way messages host -> Render Surface, in send order
    toHost,   \* one-way messages Render Surface -> host, in send order
    reqs,     \* the bag of requests the host has not handled yet
    resps     \* the bag of responses the Render Surface has not received yet

\* bookkeeping for the properties
VARIABLES
    events,     \* user events so far
    lastOpen,   \* the path of the latest openFile call since the last in-memory load
    \* the command line tool
    cliArgs,    \* parseArgs result: [help, font, positionals]
    appFound,   \* findApp() finds an app bundle
    settings,   \* the settings file: {} when missing, else { key-value map }
    settingsBefore, \* the settings file as it was when the tool started
    cliPc,      \* where the script is
    cliIdx,     \* index of the next positional in the open loop
    writes,     \* number of Bun.write calls made
    launched,   \* the paths handed to `open`, in order
    stderr,     \* what console.error printed, in order
    exitCode    \* {} while running, else { process exit code }

envVars == <<cwd, gitDirs>>

readVars == <<rfPath, rfResult>>

fprVars == <<fprPath, fprPc, fprDir, fprIters, fprResult>>

pdfVars ==
    <<imgWidth, imgHeight, pdfPc, scale, remainingHeight, sourceY,
      isFirstPage, pdfPages, bands>>

hostVars ==
    <<hostStarted, menuState, menu, winTitle, hostDialogs, clipboard,
      revealed, initialFile>>

viewVars ==
    <<viewStarted, currentFilePath, currentBaseDir, currentProjectRoot,
      contentEl, bodyClass, storedFont, lastAlert, readers>>

chanVars == <<toView, toHost, reqs, resps>>

appVars == <<hostVars, viewVars, chanVars, events, lastOpen>>

imgVars == <<imgSrc, imgBaseDir, imgOut, imgPc>>

cliVars ==
    <<cliArgs, appFound, settings, settingsBefore, cliPc, cliIdx, writes, launched, stderr, exitCode>>

vars == <<envVars, readVars, fprVars, pdfVars, appVars, cliVars, imgVars>>

\* ------------------------------------------------------------------------
\* The file system the host runs on
\* ------------------------------------------------------------------------

Abs(segs) == [abs |-> TRUE, segs |-> segs]

Rel(segs) == [abs |-> FALSE, segs |-> segs]

\* directories (canonical, as segment sequences; <<>> is "/")
Dirs == { <<>>, <<"p">>, <<"p", "s">>, <<"q">> }

\* regular files and their text
Files ==
    (<<"p", "a.md">> :> "A") @@ (<<"p", "s", "b.md">> :> "B") @@
    (<<"q", "c.md">> :> "C") @@ (<<"q", "u.md">> :> "U")

\* files that exist but cannot be read (EACCES)
Unreadable == { <<"q", "u.md">> }

\* symbolic links and their (absolute) targets; x.md dangles
Links ==
    (<<"q", "l">> :> <<"p", "s">>) @@ (<<"q", "m.md">> :> <<"p", "a.md">>) @@
    (<<"q", "x.md">> :> <<"p", "gone.md">>)

\* segment names raw paths are built from
SegNames == { "p", "q", "s", "l", "a.md", "b.md", "m.md", "u.md", "x.md", "..", "." }

MaxLinkDepth == 4

Front(s) == SubSeq(s, 1, Len(s) - 1)

\* parent of a canonical directory; the root is its own parent
Parent(segs) == IF segs = <<>> THEN <<>> ELSE Front(segs)

Fail(code) == [ok |-> FALSE, segs |-> <<code>>]

Found(segs) == [ok |-> TRUE, segs |-> segs]

\* The kernel's path walk: from directory cur, follow the remaining segments,
\* resolving "..", "." and symbolic links physically.
RECURSIVE Walk(_, _, _, _)
Walk(git, cur, rest, fuel) ==
    IF rest = <<>> THEN Found(cur)
    ELSE IF cur \in DOMAIN Files THEN Fail("ENOTDIR")
    ELSE LET c == Head(rest)
             t == Tail(rest)
             nxt == Append(cur, c)
         IN  IF c = "." THEN Walk(git, cur, t, fuel)
             ELSE IF c = ".." THEN Walk(git, Parent(cur), t, fuel)
             ELSE IF nxt \in DOMAIN Links
                  THEN IF fuel = 0 THEN Fail("ELOOP")
                       ELSE Walk(git, <<>>, Links[nxt] \o t, fuel - 1)
             ELSE IF nxt \in Dirs \/ nxt \in DOMAIN Files
                  THEN Walk(git, nxt, t, fuel)
             ELSE IF c = ".git" /\ cur \in git
                  THEN Walk(git, nxt, t, fuel)
             ELSE Fail("ENOENT")

\* the kernel's lookup of a path string, relative paths starting at dir
Lookup(git, dir, path) ==
    Walk(git, IF path.abs THEN <<>> ELSE dir, path.segs, MaxLinkDepth)

\* path.normalize on segments: lexical, never consults the file system
RECURSIVE NormalizeSegs(_, _)
NormalizeSegs(done, rest) ==
    IF rest = <<>> THEN done
    ELSE LET c == Head(rest)
         IN  IF c = "." THEN NormalizeSegs(done, Tail(rest))
             ELSE IF c = ".." THEN NormalizeSegs(Parent(done), Tail(rest))
             ELSE NormalizeSegs(Append(done, c), Tail(rest))

\* path.resolve(path): absolute and lexically normalized
resolve(dir, path) ==
    Abs(NormalizeSegs(<<>>, IF path.abs THEN path.segs ELSE dir \o path.segs))

\* path.dirname
dirname(path) ==
    IF path.abs THEN Abs(Parent(path.segs))
    ELSE IF Len(path.segs) <= 1 THEN Rel(<<".">>)
    ELSE Rel(Front(path.segs))

\* path.join(dir, name)
join(path, name) ==
    [abs |-> path.abs, segs |-> NormalizeSegs(<<>>, Append(path.segs, name))]

\* fs.realpathSync(path): the canonical path, or a failure
realpathSync(git, dir, path) == Lookup(git, dir, path)

\* fs.readFileSync(path, "utf-8"): the text, or a failure
readFileSync(git, dir, path) ==
    LET r == Lookup(git, dir, path)
    IN  IF ~r.ok THEN [ok |-> FALSE, text |-> r.segs[1]]
        ELSE IF r.segs \notin DOMAIN Files THEN [ok |-> FALSE, text |-> "EISDIR"]
        ELSE IF r.segs \in Unreadable THEN [ok |-> FALSE, text |-> "EACCES"]
        ELSE [ok |-> TRUE, text |-> Files[r.segs]]

\* fs.existsSync(path)
existsSync(git, dir, path) == Lookup(git, dir, path).ok

\* readFile(path) of the host: the response, or the thrown error
readFile(git, dir, path) ==
    LET resolved == resolve(dir, path)
        canonical == realpathSync(git, dir, resolved)
    IN  IF ~canonical.ok
        THEN [ok |-> FALSE, error |-> "Cannot resolve path"]
        ELSE LET content == readFileSync(git, dir, Abs(canonical.segs))
             IN  IF ~content.ok
                 THEN [ok |-> FALSE, error |-> "Cannot read file"]
                 ELSE [ok |-> TRUE,
                       content |-> content.text,
                       path |-> Abs(canonical.segs),
                       dir |-> dirname(Abs(canonical.segs))]

\* ------------------------------------------------------------------------
\* JavaScript numbers: IEEE-754 binary64, round to nearest, ties to even
\* ------------------------------------------------------------------------
\* A natural number is its sequence of base-2^15 digits ("limbs"), least
\* significant first, with no leading zero limb: 0 is <<>>.  A non-negative
\* finite double is [m, e], meaning m * 2^e, with m odd or zero.

\* significand precision of a binary64 number
MantissaBits == 53

LimbBits == 15

Base == 2 ^ LimbBits

RECURSIVE Trim(_)
Trim(a) ==
    IF a = <<>> THEN a
    ELSE IF a[Len(a)] = 0 THEN Trim(Front(a)) ELSE a

RECURSIVE BFromInt(_)
BFromInt(n) == IF n = 0 THEN <<>> ELSE <<n % Base>> \o BFromInt(n \div Base)

LimbAt(a, i) == IF i <= Len(a) THEN a[i] ELSE 0

RECURSIVE AddLimbs(_, _, _, _)
AddLimbs(a, b, i, carry) ==
    IF i > Len(a) /\ i > Len(b)
    THEN IF carry = 1 THEN <<1>> ELSE <<>>
    ELSE LET t == LimbAt(a, i) + LimbAt(b, i) + carry
         IN  <<t % Base>> \o AddLimbs(a, b, i + 1, t \div Base)

BAdd(a, b) == AddLimbs(a, b, 1, 0)

RECURSIVE SubLimbs(_, _, _, _)
SubLimbs(a, b, i, borrow) ==
    IF i > Len(a) THEN <<>>
    ELSE LET t == a[i] - LimbAt(b, i) - borrow
         IN  <<t % Base>> \o SubLimbs(a, b, i + 1, IF t < 0 THEN 1 ELSE 0)

\* a - b for a >= b
BSub(a, b) == Trim(SubLimbs(a, b, 1, 0))

RECURSIVE CmpFrom(_, _, _)
CmpFrom(a, b, i) ==
    IF i = 0 THEN 0
    ELSE IF a[i] # b[i] THEN (IF a[i] < b[i] THEN -1 ELSE 1)
    ELSE CmpFrom(a, b, i - 1)

\* -1, 0, 1 as a < b, a = b, a > b
BCmp(a, b) ==
    IF Len(a) # Len(b) THEN (IF Len(a) < Len(b) THEN -1 ELSE 1)
    ELSE CmpFrom(a, b, Len(a))

RECURSIVE MulLimbs(_, _, _, _)
MulLimbs(a, k, i, carry) ==
    IF i > Len(a) THEN (IF carry = 0 THEN <<>> ELSE <<carry>>)
    ELSE LET t == a[i] * k + carry
         IN  <<t % Base>> \o MulLimbs(a, k, i + 1, t \div Base)

\* a * k for 0 <= k < Base
BMulSmall(a, k) == Trim(MulLimbs(a, k, 1, 0))

\* a * Base^n
BShlLimbs(a, n) == IF a = <<>> THEN a ELSE [i \in 1..n |-> 0] \o a

RECURSIVE BMul(_, _)
BMul(a, b) ==
    IF b = <<>> THEN <<>>
    ELSE BAdd(BMulSmall(a, Head(b)), BShlLimbs(BMul(a, Tail(b)), 1))

\* a * 2^s
BShl(a, s) == BMulSmall(BShlLimbs(a, s \div LimbBits), 2 ^ (s % LimbBits))

\* limb i of a \div k and the final remainder, from limb i down (0 < k <= Base)
RECURSIVE DivLimbs(_, _, _, _)
DivLimbs(a, k, i, rem) ==
    IF i = 0 THEN <<>>
    ELSE LET cur == rem * Base + a[i]
         IN  Append(DivLimbs(a, k, i - 1, cur % k), cur \div k)

\* a \div k for 0 < k <= Base
BDivSmall(a, k) == Trim(DivLimbs(a, k, Len(a), 0))

\* a \div 2^s
BShr(a, s) ==
    IF s \div LimbBits >= Len(a) THEN <<>>
    ELSE BDivSmall(SubSeq(a, s \div LimbBits + 1, Len(a)), 2 ^ (s % LimbBits))

\* number of significant bits of a
BitLen(a) ==
    IF a = <<>> THEN 0
    ELSE (Len(a) - 1) * LimbBits
         + (CHOOSE k \in 1..LimbBits : 2 ^ (k - 1) <= a[Len(a)] /\ a[Len(a)] < 2 ^ k)

\* the largest q in lo..(hi - 1) with d * q <= r, given d * lo <= r < d * hi
RECURSIVE QuotDigit(_, _, _, _)
QuotDigit(r, d, lo, hi) ==
    IF hi - lo <= 1 THEN lo
    ELSE LET mid == (lo + hi) \div 2
         IN  IF BCmp(BMulSmall(d, mid), r) <= 0
             THEN QuotDigit(r, d, mid, hi)
             ELSE QuotDigit(r, d, lo, mid)

\* schoolbook long division, from limb i of n down, with running remainder r
RECURSIVE DivStep(_, _, _, _)
DivStep(n, d, i, r) ==
    IF i = 0 THEN [q |-> <<>>, r |-> r]
    ELSE LET r2 == Trim(<<n[i]>> \o r)
             digit == QuotDigit(r2, d, 0, Base)
             rest == DivStep(n, d, i - 1, BSub(r2, BMulSmall(d, digit)))
         IN  [q |-> Append(rest.q, digit), r |-> rest.r]

\* n \div d and n % d, for d > 0
BDivMod(n, d) ==
    LET s == DivStep(n, d, Len(n), <<>>)
    IN  [q |-> Trim(s.q), r |-> s.r]

\* number of trailing zero bits of a limb that is not 0
TrailingZeros(x) ==
    CHOOSE k \in 0..(LimbBits - 1) : x % (2 ^ k) = 0 /\ x % (2 ^ (k + 1)) # 0

RECURSIVE Canon(_, _)
Canon(m, e) ==
    IF m = <<>> THEN [m |-> <<>>, e |-> 0]
    ELSE IF m[1] = 0 THEN Canon(Tail(m), e + LimbBits)
    ELSE [m |-> BDivSmall(m, 2 ^ TrailingZeros(m[1])), e |-> e + TrailingZeros(m[1])]

\* the double nearest to (m + f) * 2^e, where 0 < f < 1 iff sticky;
\* a sticky m must have more than MantissaBits bits
FRound(m, e, sticky) ==
    IF BitLen(m) <= MantissaBits THEN Canon(m, e)
    ELSE LET k == BitLen(m) - MantissaBits
             kept == BShr(m, k)
             low == BSub(m, BShl(kept, k))
             c == BCmp(low, BShl(<<1>>, k - 1))
             up == c > 0 \/ (c = 0 /\ (sticky \/ kept[1] % 2 = 1))
         IN  Canon(IF up THEN BAdd(kept, <<1>>) ELSE kept, e + k)

FromInt(n) == Canon(BFromInt(n), 0)

MinE(x, y) == IF x.e < y.e THEN x.e ELSE y.e

\* the significand of x at exponent e <= x.e
AtExp(x, e) == BShl(x.m, x.e - e)

FCmp(x, y) == BCmp(AtExp(x, MinE(x, y)), AtExp(y, MinE(x, y)))

\* x + y and x - y (x >= y) without rounding
ExactAdd(x, y) == Canon(BAdd(AtExp(x, MinE(x, y)), AtExp(y, MinE(x, y))), MinE(x, y))

ExactSub(x, y) == Canon(BSub(AtExp(x, MinE(x, y)), AtExp(y, MinE(x, y))), MinE(x, y))

\* the JavaScript operators +, - (for x >= y), *, /, Math.min
FAdd(x, y) == LET s == ExactAdd(x, y) IN FRound(s.m, s.e, FALSE)

FSub(x, y) == LET s == ExactSub(x, y) IN FRound(s.m, s.e, FALSE)

FMul(x, y) == FRound(BMul(x.m, y.m), x.e + y.e, FALSE)

FDiv(x, y) ==
    LET need == MantissaBits + 2 + BitLen(y.m) - BitLen(x.m)
        s == IF need > 0 THEN need ELSE 0
        d == BDivMod(BShl(x.m, s), y.m)
    IN  IF x.m = <<>> THEN x ELSE FRound(d.q, x.e - y.e - s, d.r # <<>>)

FMin(x, y) == IF FCmp(x, y) <= 0 THEN x ELSE y

\* ------------------------------------------------------------------------
\* The parts of the state a specification does not use
\* ------------------------------------------------------------------------

Zero == FromInt(0)

ReadIdle ==
    /\ rfPath = Abs(<<>>)
    /\ rfResult = {}

FprIdle ==
    /\ fprPath = Abs(<<>>)
    /\ fprPc = "done"
    /\ fprDir = Abs(<<>>)
    /\ fprIters = 0
    /\ fprResult = Null

PdfIdle ==
    /\ imgWidth = 1
    /\ imgHeight = 1
    /\ pdfPc = "done"
    /\ scale = Zero
    /\ remainingHeight = Zero
    /\ sourceY = Zero
    /\ isFirstPage = TRUE
    /\ pdfPages = 1
    /\ bands = <<>>

\* lines 19-23 of src/bun/index.ts and 305-307 of the Render Surface: the
\* state of both processes before their module bodies run
AppStart ==
    /\ hostStarted = FALSE
    /\ menuState = [fileMenuEnabled |-> FALSE, checkedFont |-> "font_system",
                    mdAssociated |-> FALSE]
    /\ menu = Null
    /\ winTitle = "mdview"
    /\ hostDialogs = 0
    /\ clipboard = Null
    /\ revealed = Null
    /\ viewStarted = FALSE
    /\ currentFilePath = Null
    /\ currentBaseDir = Null
    /\ currentProjectRoot = Null
    /\ contentEl = [kind |-> "welcome", text |-> ""]
    /\ bodyClass = ""
    /\ lastAlert = Null
    /\ readers = {}
    /\ toView = <<>>
    /\ toHost = <<>>
    /\ reqs = EmptyBag
    /\ resps = EmptyBag
    /\ events = 0
    /\ lastOpen = Null

AppIdle ==
    /\ AppStart
    /\ storedFont = Null
    /\ initialFile = Null


CliIdle ==
    /\ cliArgs = [help |-> TRUE, font |-> Null, positionals |-> <<>>]
    /\ appFound = TRUE
    /\ settings = Null
    /\ settingsBefore = Null
    /\ cliPc = "exited"
    /\ cliIdx = 1
    /\ writes = 0
    /\ launched = <<>>
    /\ stderr = <<>>
    /\ exitCode = Some(0)

ImgIdle ==
    /\ imgSrc = Null
    /\ imgBaseDir = Null
    /\ imgOut = Null
    /\ imgPc = "rendered"
\* ------------------------------------------------------------------------
\* readFile as a pure function: one call on an arbitrary raw path
\* ------------------------------------------------------------------------

SegSeqs(n) == UNION { [1..k -> SegNames] : k \in 1..n }

RawPaths == [abs : BOOLEAN, segs : SegSeqs(MaxSegs)]

InitRead ==
    /\ cwd \in Dirs
    /\ gitDirs = {}
    /\ rfPath \in RawPaths
    /\ rfResult = {}
    /\ FprIdle
    /\ PdfIdle
    /\ AppIdle
    /\ CliIdle
    /\ ImgIdle

ReadFileCall ==
    /\ rfResult = {}
    /\ rfResult' = { readFile(gitDirs, cwd, rfPath) }
    /\ UNCHANGED rfPath
    /\ UNCHANGED <<envVars, fprVars, pdfVars, appVars, cliVars, imgVars>>

NextRead == ReadFileCall

SpecRead == InitRead /\ [][NextRead]_vars

\* the file a raw path names for the operating system, if any
NamedFile(dir, path) ==
    LET r == Lookup({}, dir, path)
    IN  IF r.ok /\ r.segs \in DOMAIN Files /\ r.segs \notin Unreadable
        THEN Some(r.segs) ELSE Null

\* C1: for every path that names an existing readable file, readFile returns
\* the file's text, the canonical path and the canonical path's parent.
C1_ReadFileReturnsNamedFile ==
    \A r \in rfResult :
        \A f \in NamedFile(cwd, rfPath) :
            /\ r.ok
            /\ r.content = Files[f]
            /\ r.path = Abs(f)
            /\ r.dir = Abs(Parent(f))

\* ------------------------------------------------------------------------
\* findProjectRoot, one loop iteration per step
\* ------------------------------------------------------------------------

\* absolute, normalized paths: what the Render Surface passes (result.path)
PlainNames == SegNames \ { "..", "." }

PlainSeqs(n) == UNION { [1..k -> PlainNames] : k \in 0..n }

\* fs.statSync(path).isFile(); "throws" when the path does not resolve
statKind(git, dir, path) ==
    LET r == Lookup(git, dir, path)
    IN  IF ~r.ok THEN "throws"
        ELSE IF r.segs \in DOMAIN Files THEN "file" ELSE "directory"

\* lines 122-130: the directory the search starts in
fprStartDir(git, dir, filePath) ==
    LET kind == statKind(git, dir, filePath)
    IN  IF kind = "file" THEN dirname(filePath)
        ELSE IF kind = "throws" THEN dirname(filePath)
        ELSE filePath

\* the iteration without the test that stops the loop at the root
fprStep_NoBreak(git, wd, dir) ==
    IF existsSync(git, wd, join(dir, ".git"))
    THEN [pc |-> "done", dir |-> dir, result |-> Some(dir)]
    ELSE [pc |-> "loop", dir |-> dirname(dir), result |-> Null]

\* the iteration returning the parent of the directory that has the marker
fprStep_ReturnsParent(git, wd, dir) ==
    IF existsSync(git, wd, join(dir, ".git"))
    THEN [pc |-> "done", dir |-> dir, result |-> Some(dirname(dir))]
    ELSE LET parent == dirname(dir)
         IN  IF parent = dir
             THEN [pc |-> "done", dir |-> dir, result |-> Null]
             ELSE [pc |-> "loop", dir |-> parent, result |-> Null]

\* lines 133-138: one iteration of while (true) on the local dir
fprStep(git, wd, dir) ==
    IF existsSync(git, wd, join(dir, ".git"))
    THEN [pc |-> "done", dir |-> dir, result |-> Some(dir)]
    ELSE LET parent == dirname(dir)
         IN  IF parent = dir
             THEN [pc |-> "done", dir |-> dir, result |-> Null]
             ELSE [pc |-> "loop", dir |-> parent, result |-> Null]

InitRoot ==
    /\ cwd = <<"q">>
    /\ gitDirs \in SUBSET Dirs
    /\ ReadIdle
    /\ PdfIdle
    /\ AppIdle
    /\ CliIdle
    /\ ImgIdle
    /\ fprPath \in { Abs(s) : s \in PlainSeqs(MaxSegs) }
    /\ fprPc = "start"
    /\ fprDir = fprPath
    /\ fprIters = 0
    /\ fprResult = Null

FprStart ==
    /\ fprPc = "start"
    /\ fprDir' = fprStartDir(gitDirs, cwd, fprPath)
    /\ fprPc' = "loop"
    /\ UNCHANGED <<fprPath, fprIters, fprResult>>
    /\ UNCHANGED <<envVars, readVars, pdfVars, appVars, cliVars, imgVars>>

FprIter ==
    /\ fprPc = "loop"
    /\ LET s == fprStep(gitDirs, cwd, fprDir)
       IN  /\ fprPc' = s.pc
           /\ fprDir' = s.dir
           /\ fprResult' = s.result
    /\ fprIters' = fprIters + 1
    /\ UNCHANGED fprPath
    /\ UNCHANGED <<envVars, readVars, pdfVars, appVars, cliVars, imgVars>>

NextRoot == FprStart \/ FprIter

SpecRoot == InitRoot /\ [][NextRoot]_vars

\* number of directory levels on a path, the root counting as one
Depth(path) == Len(path.segs) + 1

\* the directory that contains the file (a directory is its own container)
ContainingDir(git, path) ==
    IF statKind(git, <<>>, path) = "directory" THEN path.segs ELSE Parent(path.segs)

\* that directory and all its ancestors up to the root
Ancestors(git, path) ==
    LET d == ContainingDir(git, path)
    IN  { SubSeq(d, 1, k) : k \in 0..Len(d) }

\* the directory has a version-control marker entry
HasMarker(git, d) == Lookup(git, <<>>, Abs(Append(d, ".git"))).ok

Marked(git, path) == { d \in Ancestors(git, path) : HasMarker(git, d) }

\* C9: findProjectRoot ends within depth(filePath) loop iterations and returns
\* null when no ancestor directory has the marker, the root included.
C9_RootSearchBoundedAndNull ==
    /\ fprIters <= Depth(fprPath)
    /\ fprPc = "loop" => fprIters < Depth(fprPath)
    /\ (fprPc = "done" /\ Marked(gitDirs, fprPath) = {}) => fprResult = Null

\* a search from two levels down that used every iteration the bound allows
\* and found no marker
C9_Witness ==
    /\ fprPc = "done"
    /\ Len(fprPath.segs) = 2
    /\ fprIters = Depth(fprPath)
    /\ Marked(gitDirs, fprPath) = {}
    /\ fprResult = Null

\* C10: when some ancestor has the marker, the result is the nearest one.
C10_RootIsNearestMarked ==
    (fprPc = "done" /\ Marked(gitDirs, fprPath) # {}) =>
        \E d \in Marked(gitDirs, fprPath) :
            /\ fprResult = Some(Abs(d))
            /\ \A e \in Marked(gitDirs, fprPath) : Len(e) <= Len(d)

\* two ancestors have the marker and the nearer one was returned
C10_Witness ==
    /\ fprPc = "done"
    /\ Cardinality(Marked(gitDirs, fprPath)) >= 2
    /\ fprResult = Some(Abs(<<"p", "s">>))

\* ------------------------------------------------------------------------
\* generatePDF: page geometry and the pagination loop
\* ------------------------------------------------------------------------

pageWidth == 612

pageHeight == 792

margin == 36

usableWidth == pageWidth - margin * 2

usableHeight == pageHeight - margin * 2

\* scaledHeight <= usableHeight, as the code evaluates it
FitsOnePage(w, h) ==
    FCmp(FMul(FromInt(h), FDiv(FromInt(usableWidth), FromInt(w))),
         FromInt(usableHeight)) <= 0

\* the slice height without Math.min: a whole page every time
sliceHeightOf_WholePage(rem, sc) == FDiv(FromInt(usableHeight), sc)

\* Math.min(remainingHeight, usableHeight / scale)
sliceHeightOf(rem, sc) == FMin(rem, FDiv(FromInt(usableHeight), sc))

InitPdf ==
    /\ cwd = <<>>
    /\ gitDirs = {}
    /\ ReadIdle
    /\ FprIdle
    /\ AppIdle
    /\ CliIdle
    /\ ImgIdle
    /\ imgWidth \in 1..MaxImgWidth
    /\ imgHeight \in 1..MaxImgHeight
    /\ pdfPc = "start"
    /\ scale = Zero
    /\ remainingHeight = Zero
    /\ sourceY = Zero
    /\ isFirstPage = TRUE
    /\ pdfPages = 0
    /\ bands = <<>>

\* lines 595-622: new jsPDF() holds one page; one image if the content fits
PdfStart ==
    /\ pdfPc = "start"
    /\ scale' = FDiv(FromInt(usableWidth), FromInt(imgWidth))
    /\ pdfPages' = 1
    /\ IF FitsOnePage(imgWidth, imgHeight)
       THEN /\ pdfPc' = "done"
            /\ UNCHANGED <<remainingHeight, sourceY, isFirstPage>>
       ELSE /\ pdfPc' = "loop"
            /\ remainingHeight' = FromInt(imgHeight)
            /\ sourceY' = Zero
            /\ isFirstPage' = TRUE
    /\ UNCHANGED <<imgWidth, imgHeight, bands>>
    /\ UNCHANGED <<envVars, readVars, fprVars, appVars, cliVars, imgVars>>

\* lines 624-650: one iteration of while (remainingHeight > 0)
PdfBand ==
    /\ pdfPc = "loop"
    /\ FCmp(remainingHeight, Zero) > 0
    /\ LET sliceHeight == sliceHeightOf(remainingHeight, scale)
           page == IF isFirstPage THEN pdfPages ELSE pdfPages + 1
       IN  /\ pdfPages' = page
           /\ bands' = Append(bands, [page |-> page, sy |-> sourceY, sh |-> sliceHeight])
           /\ sourceY' = FAdd(sourceY, sliceHeight)
           /\ remainingHeight' = FSub(remainingHeight, sliceHeight)
           /\ isFirstPage' = FALSE
    /\ UNCHANGED <<imgWidth, imgHeight, pdfPc, scale>>
    /\ UNCHANGED <<envVars, readVars, fprVars, appVars, cliVars, imgVars>>

\* line 624: the loop condition fails
PdfLoopExit ==
    /\ pdfPc = "loop"
    /\ ~(FCmp(remainingHeight, Zero) > 0)
    /\ pdfPc' = "done"
    /\ UNCHANGED <<imgWidth, imgHeight, scale, remainingHeight, sourceY,
                   isFirstPage, pdfPages, bands>>
    /\ UNCHANGED <<envVars, readVars, fprVars, appVars, cliVars, imgVars>>

NextPdf == PdfStart \/ PdfBand \/ PdfLoopExit

SpecPdf == InitPdf /\ [][NextPdf]_vars

\* the part of the state every step of generatePDF changes, none of it a
\* double: its position, the first-page flag, the page count
pdfProgress == <<pdfPc, isFirstPage, pdfPages>>

\* NextPdf on pdfProgress: the three steps with their guards, without the
\* assignments to the doubles
PdfAdvances ==
    \/ /\ pdfPc = "start"
       /\ pdfPc' \in { "loop", "done" }
       /\ pdfPages' = 1
       /\ isFirstPage' = TRUE
    \/ /\ pdfPc = "loop"
       /\ FCmp(remainingHeight, Zero) > 0
       /\ pdfPc' = pdfPc
       /\ pdfPages' = IF isFirstPage THEN pdfPages ELSE pdfPages + 1
       /\ isFirstPage' = FALSE
    \/ /\ pdfPc = "loop"
       /\ ~(FCmp(remainingHeight, Zero) > 0)
       /\ pdfPc' = "done"
       /\ pdfPages' = pdfPages
       /\ isFirstPage' = isFirstPage

\* generatePDF is straight-line code on one thread: once called it keeps
\* running until it returns.  The fairness is that of NextPdf, stated on
\* pdfProgress.
SpecPdfLive == InitPdf /\ [][NextPdf]_vars /\ WF_pdfProgress(PdfAdvances)

\* k + 1 for scaled height k * usableHeight + r with 0 < r <= usableHeight,
\* in exact arithmetic (scaled height = h * usableWidth / w)
ExactPages(w, h) ==
    IF h * usableWidth <= usableHeight * w THEN 1
    ELSE (h * usableWidth + usableHeight * w - 1) \div (usableHeight * w)

\* C7: generatePDF emits one page when the scaled height fits and k + 1 pages
\* when the scaled height is k * usableHeight + r, 0 < r <= usableHeight.
C7_PageCount ==
    pdfPc = "done" => pdfPages = ExactPages(imgWidth, imgHeight)

\* C8: in the multi-page branch the bands tile the source image: the first
\* starts at row 0, each starts where the one before ended, the last ends at
\* imgHeight, and band i is placed on page i.
C8_BandsTileImage ==
    (pdfPc = "done" /\ bands # <<>>) =>
        /\ bands[1].sy = Zero
        /\ \A i \in 1..(Len(bands) - 1) :
               bands[i + 1].sy = ExactAdd(bands[i].sy, bands[i].sh)
        /\ ExactAdd(bands[Len(bands)].sy, bands[Len(bands)].sh) = FromInt(imgHeight)
        /\ \A i \in 1..Len(bands) : bands[i].page = i
        /\ pdfPages = Len(bands)

\* each iteration takes a band of strictly positive height, the smaller of
\* what remains and of what a page holds, and what remains gets strictly
\* smaller without going below zero
BandMakesProgress ==
    PdfBand
        => LET band == bands'[Len(bands')]
               page == FDiv(FromInt(usableHeight), scale)
           IN  /\ FCmp(band.sh, Zero) > 0
               /\ band.sh = IF FCmp(remainingHeight, page) <= 0
                            THEN remainingHeight ELSE page
               /\ FCmp(remainingHeight', remainingHeight) < 0
               /\ FCmp(remainingHeight', Zero) >= 0

\* the loop has been left with nothing remaining
ExitsAtZero ==
    (pdfPc = "done" /\ bands # <<>>) => FCmp(remainingHeight, Zero) = 0

\* C27: the pagination loop of generatePDF terminates for every image with
\* positive width and height: each iteration takes a band of strictly
\* positive height min(remainingHeight, usableHeight/scale),
\* remainingHeight strictly decreases, and the loop exits with
\* remainingHeight exactly 0, never negative.
C27_LoopTerminates ==
    /\ <>(pdfPc = "done")
    /\ [](ExitsAtZero)
    /\ [][BandMakesProgress]_vars

\* an image one pixel wide and four high: three whole bands leave a
\* remainder far below one row, a fourth band takes it and the loop ends
C27_Witness ==
    /\ pdfPc = "done"
    /\ imgWidth = 1
    /\ imgHeight = 4
    /\ Len(bands) = 4
    /\ FCmp(remainingHeight, Zero) = 0
\* ------------------------------------------------------------------------
\* renderMarkdown: the src of an img element.  A string is the sequence of
\* its characters.
\* ------------------------------------------------------------------------

\* the characters a src attribute is made of
SrcChars == { "h", "t", "p", "d", "a", ":", "/" }

RECURSIVE StringsUpTo(_)
StringsUpTo(n) ==
    IF n = 0 THEN { <<>> }
    ELSE LET shorter == StringsUpTo(n - 1)
         IN  shorter \cup { Append(s, c) : s \in { t \in shorter : Len(t) = n - 1 },
                                           c \in SrcChars }

\* the src attributes of the model; {} is an element without the attribute
SrcAttrs == { Null } \cup { Some(s) : s \in StringsUpTo(MaxSrcLen) }

\* the values of currentBaseDir: none, and the directory /p
BaseDirs == { Null, Some(<<"/", "p">>) }

\* String.prototype.startsWith
startsWith(s, prefix) ==
    /\ Len(s) >= Len(prefix)
    /\ SubSeq(s, 1, Len(prefix)) = prefix

\* lines 370-379: the src of one img element after renderMarkdown
rewriteSrc(baseDir, src) ==
    IF baseDir = Null
    THEN src
    ELSE IF /\ src # Null
            /\ The(src) # <<>>
            /\ ~startsWith(The(src), <<"h", "t", "t", "p">>)
            /\ ~startsWith(The(src), <<"d", "a", "t", "a", ":">>)
            /\ ~startsWith(The(src), <<"/">>)
         THEN Some(<<"f", "i", "l", "e", ":", "/", "/">> \o The(baseDir) \o <<"/">> \o The(src))
         ELSE IF src # Null /\ The(src) # <<>> /\ startsWith(The(src), <<"/">>)
              THEN Some(<<"f", "i", "l", "e", ":", "/", "/">> \o The(src))
              ELSE src

InitImg ==
    /\ cwd = <<>>
    /\ gitDirs = {}
    /\ ReadIdle
    /\ FprIdle
    /\ PdfIdle
    /\ AppIdle
    /\ CliIdle
    /\ imgSrc \in SrcAttrs
    /\ imgBaseDir \in BaseDirs
    /\ imgOut = imgSrc
    /\ imgPc = "parsed"

\* lines 369-380: the forEach body of renderMarkdown on one img element
RenderImg ==
    /\ imgPc = "parsed"
    /\ imgOut' = rewriteSrc(imgBaseDir, imgSrc)
    /\ imgPc' = "rendered"
    /\ UNCHANGED <<imgSrc, imgBaseDir>>
    /\ UNCHANGED <<envVars, readVars, fprVars, pdfVars, appVars, cliVars>>

NextImg == RenderImg

SpecImg == InitImg /\ [][NextImg]_vars

\* a URL scheme at the start of s: a letter, then letters, then ":"
StartsWithScheme(s) ==
    \E i \in 2..Len(s) :
        /\ s[i] = ":"
        /\ \A j \in 1..(i - 1) : s[j] \in { "h", "t", "p", "d", "a" }

fileUrl(path) == <<"f", "i", "l", "e", ":", "/", "/">> \o path

\* C21: image source rewriting is a three-way case split on every img src
\* of a rendered document that has a backing directory: a src that starts
\* with neither a URL scheme nor "/" becomes directory + "/" + src under
\* the file-access scheme; a src that is an absolute path becomes that same
\* path under the file-access scheme; a scheme-qualified or data-URI src is
\* left unchanged.
C21_ThreeWaySplit ==
    (imgPc = "rendered" /\ imgBaseDir # Null /\ imgSrc # Null)
        => LET src == The(imgSrc)
               dir == The(imgBaseDir)
           IN  IF StartsWithScheme(src) THEN imgOut = imgSrc
               ELSE IF startsWith(src, <<"/">>) THEN imgOut = Some(fileUrl(src))
               ELSE imgOut = Some(fileUrl(dir \o <<"/">> \o src))
\* ------------------------------------------------------------------------
\* The command line tool
\* ------------------------------------------------------------------------

\* line 10: FONT_NAMES
FONT_NAMES == { "system", "inter", "serif", "sans", "mono", "readable" }

\* values of --font on the command lines explored
CliFonts == { "serif", "bogus" }

\* file arguments on the command lines explored (the tool runs in /q)
CliFileArgs == { Rel(<<"c.md">>), Rel(<<"gone.md">>), Abs(<<"p", "a.md">>) }

\* the settings file before the run: missing, or holding these keys
InitialSettings ==
    { Null, Some("size" :> "14"), Some(("font" :> "mono") @@ ("size" :> "14")) }

\* a line of console.error
ErrLine(kind, path) == [kind |-> kind, path |-> path]

\* JSON.stringify({ font: values.font }) as the content of the file
fontOnly(font) == "font" :> font

\* process.exit(code)
exited(code) ==
    /\ cliPc' = "exited"
    /\ exitCode' = Some(code)

cliInputs == <<cliArgs, appFound, settingsBefore>>

notCli == <<envVars, readVars, fprVars, pdfVars, appVars, imgVars>>

InitCli ==
    /\ cwd = <<"q">>
    /\ gitDirs = {}
    /\ ReadIdle
    /\ FprIdle
    /\ PdfIdle
    /\ ImgIdle
    /\ AppIdle
    /\ cliArgs \in [ help : BOOLEAN,
                     font : { Null } \cup { Some(f) : f \in CliFonts },
                     positionals : UNION { [1..n -> CliFileArgs] : n \in 0..MaxFiles } ]
    /\ appFound \in BOOLEAN
    /\ settings \in InitialSettings
    /\ settingsBefore = settings
    /\ cliPc = "start"
    /\ cliIdx = 1
    /\ writes = 0
    /\ launched = <<>>
    /\ stderr = <<>>
    /\ exitCode = Null

\* lines 30-61: help, missing file argument, font validation
CliParse ==
    /\ cliPc = "start"
    /\ IF cliArgs.help \/ Len(cliArgs.positionals) = 0
       THEN /\ exited(IF cliArgs.help THEN 0 ELSE 1)
            /\ UNCHANGED stderr
       ELSE IF cliArgs.font # Null /\ The(cliArgs.font) \notin FONT_NAMES
       THEN /\ exited(1)
            /\ stderr' = Append(stderr, ErrLine("Unknown font", Null))
       ELSE /\ cliPc' = IF cliArgs.font # Null THEN "save" ELSE "findApp"
            /\ UNCHANGED <<stderr, exitCode>>
    /\ UNCHANGED <<cliInputs, settings, cliIdx, writes, launched>>
    /\ UNCHANGED notCli

\* lines 65-69: the first Bun.write of the settings file
CliSave ==
    /\ cliPc = "save"
    /\ writes' = writes + 1
    /\ \E ok \in BOOLEAN :
           IF ok
           THEN /\ settings' = Some(fontOnly(The(cliArgs.font)))
                /\ cliPc' = "findApp"
           ELSE /\ cliPc' = "retry"
                /\ UNCHANGED settings
    /\ UNCHANGED <<cliInputs, cliIdx, launched, stderr, exitCode>>
    /\ UNCHANGED notCli

\* the retry giving up the run when the preference cannot be saved
CliRetry_ExitsOnFailure ==
    /\ cliPc = "retry"
    /\ \E made \in BOOLEAN, ok \in BOOLEAN :
           IF ~made
           THEN /\ stderr' = Append(stderr, ErrLine("Warning: could not save font preference", Null))
                /\ exited(1)
                /\ UNCHANGED <<settings, writes>>
           ELSE /\ writes' = writes + 1
                /\ IF ok
                   THEN /\ settings' = Some(fontOnly(The(cliArgs.font)))
                        /\ cliPc' = "findApp"
                        /\ UNCHANGED <<stderr, exitCode>>
                   ELSE /\ stderr' = Append(stderr, ErrLine("Warning: could not save font preference", Null))
                        /\ exited(1)
                        /\ UNCHANGED settings
    /\ UNCHANGED <<cliInputs, cliIdx, launched>>
    /\ UNCHANGED notCli

\* lines 70-81: mkdirSync, the second Bun.write, the warning
CliRetry ==
    /\ cliPc = "retry"
    /\ cliPc' = "findApp"
    /\ \E made \in BOOLEAN, ok \in BOOLEAN :
           IF ~made
           THEN /\ stderr' = Append(stderr, ErrLine("Warning: could not save font preference", Null))
                /\ UNCHANGED <<settings, writes>>
           ELSE /\ writes' = writes + 1
                /\ IF ok
                   THEN /\ settings' = Some(fontOnly(The(cliArgs.font)))
                        /\ UNCHANGED stderr
                   ELSE /\ stderr' = Append(stderr, ErrLine("Warning: could not save font preference", Null))
                        /\ UNCHANGED settings
    /\ UNCHANGED <<cliInputs, cliIdx, launched, exitCode>>
    /\ UNCHANGED notCli

\* lines 105-111: findApp() and the exit when there is no app bundle
CliFindApp ==
    /\ cliPc = "findApp"
    /\ IF appFound
       THEN /\ cliPc' = "loop"
            /\ UNCHANGED <<stderr, exitCode>>
       ELSE /\ exited(1)
            /\ stderr' = Append(stderr, ErrLine("Could not find mdview.app", Null))
    /\ UNCHANGED <<cliInputs, settings, cliIdx, writes, launched>>
    /\ UNCHANGED notCli

\* the iteration leaving the loop at the first file that is not found
CliOpen_StopsAtMissing ==
    /\ cliPc = "loop"
    /\ cliIdx <= Len(cliArgs.positionals)
    /\ LET fileArg == cliArgs.positionals[cliIdx]
           absPath == resolve(cwd, fileArg)
       IN  IF ~existsSync(gitDirs, cwd, absPath)
           THEN /\ stderr' = Append(stderr, ErrLine("File not found", Some(fileArg)))
                /\ cliIdx' = Len(cliArgs.positionals) + 1
                /\ UNCHANGED launched
           ELSE /\ launched' = Append(launched, absPath)
                /\ cliIdx' = cliIdx + 1
                /\ \E code \in { 0, 1 } :
                       stderr' = IF code # 0
                                 THEN Append(stderr, ErrLine("Failed to open", Some(fileArg)))
                                 ELSE stderr
    /\ UNCHANGED <<cliInputs, settings, cliPc, writes, exitCode>>
    /\ UNCHANGED notCli

\* lines 115-133: one iteration of for (const fileArg of positionals)
CliOpen ==
    /\ cliPc = "loop"
    /\ cliIdx <= Len(cliArgs.positionals)
    /\ cliIdx' = cliIdx + 1
    /\ LET fileArg == cliArgs.positionals[cliIdx]
           absPath == resolve(cwd, fileArg)
       IN  IF ~existsSync(gitDirs, cwd, absPath)
           THEN /\ stderr' = Append(stderr, ErrLine("File not found", Some(fileArg)))
                /\ UNCHANGED launched
           ELSE /\ launched' = Append(launched, absPath)
                /\ \E code \in { 0, 1 } :
                       stderr' = IF code # 0
                                 THEN Append(stderr, ErrLine("Failed to open", Some(fileArg)))
                                 ELSE stderr
    /\ UNCHANGED <<cliInputs, settings, cliPc, writes, exitCode>>
    /\ UNCHANGED notCli

\* the script runs off its end: the process exits with code 0
CliEnd ==
    /\ cliPc = "loop"
    /\ cliIdx > Len(cliArgs.positionals)
    /\ exited(0)
    /\ UNCHANGED <<cliInputs, settings, cliIdx, writes, launched, stderr>>
    /\ UNCHANGED notCli

NextCli == CliParse \/ CliSave \/ CliRetry \/ CliFindApp \/ CliOpen \/ CliEnd

SpecCli == InitCli /\ [][NextCli]_vars

\* ------------------------------------------------------------------------
\* Properties of the command line tool
\* ------------------------------------------------------------------------

\* console.error printed a line of this kind
Printed(kind) == \E i \in 1..Len(stderr) : stderr[i].kind = kind

\* the file argument names something the operating system finds
Listed(f) == Lookup(gitDirs, cwd, f).ok

\* the paths of the file arguments that exist, in argument order
RECURSIVE Handed(_)
Handed(args) ==
    IF args = <<>> THEN <<>>
    ELSE LET rest == Handed(Front(args))
             f == args[Len(args)]
         IN  IF Listed(f) THEN Append(rest, resolve(cwd, f)) ELSE rest

SomeFileMissing ==
    \E i \in 1..Len(cliArgs.positionals) : ~Listed(cliArgs.positionals[i])

BadFont == cliArgs.font # Null /\ The(cliArgs.font) \notin FONT_NAMES

\* the exit codes of --help, of a command line without file argument and of
\* an unknown font
ExitCodesOfParse ==
    \A code \in exitCode :
        /\ cliArgs.help => code = 0
        /\ (~cliArgs.help /\ cliArgs.positionals = <<>>) => code = 1
        /\ (~cliArgs.help /\ cliArgs.positionals # <<>> /\ BadFont) => code = 1

\* C12: the tool exits 0 on --help and 1 without file argument, with an
\* unknown font, or when a listed file does not exist.
C12_ExitCodes ==
    /\ ExitCodesOfParse
    /\ \A code \in exitCode :
           (~cliArgs.help /\ SomeFileMissing) => code = 1

\* the open loop was entered (font valid, app bundle found)
InLoopOrPast ==
    \/ cliPc = "loop"
    \/ cliPc = "exited" /\ exitCode = Some(0) /\ ~cliArgs.help

\* C13: a file that is missing or fails to launch does not stop the tool:
\* once the open loop runs, every listed file that exists is handed to the
\* app once, in argument order.
C13_EveryExistingFileOpened ==
    /\ InLoopOrPast =>
           launched = Handed(SubSeq(cliArgs.positionals, 1, cliIdx - 1))
    /\ (cliPc = "exited" /\ exitCode = Some(0) /\ ~cliArgs.help) =>
           cliIdx = Len(cliArgs.positionals) + 1

\* a run over three arguments, the middle one missing, one launch failed,
\* both existing files handed over
C13_Witness ==
    /\ cliPc = "exited"
    /\ Len(cliArgs.positionals) = 3
    /\ ~Listed(cliArgs.positionals[2])
    /\ Printed("Failed to open")
    /\ Len(launched) = 2
    /\ launched[1] # launched[2]

\* C14: an error of the command line never partially applies: an unknown
\* font is rejected before the settings file is written and before a file is
\* opened, and a run that reports a missing file has persisted no font.
C14_NoPartialApply ==
    /\ Printed("Unknown font") =>
           /\ settings = settingsBefore
           /\ writes = 0
           /\ launched = <<>>
           /\ exitCode = Some(1)
    /\ Printed("File not found") => settings = settingsBefore

\* the run saved the font: a write was made and no warning printed
FontSaved ==
    /\ cliPc \in { "findApp", "loop", "exited" }
    /\ writes > 0
    /\ ~Printed("Warning: could not save font preference")

\* C15: saving the font merges it into the settings: the file then holds the
\* new font and every other key with the value it had before.
C15_SaveMerges ==
    FontSaved =>
        \A s \in settings :
            /\ "font" \in DOMAIN s
            /\ s["font"] = The(cliArgs.font)
            /\ \A b \in settingsBefore :
                   \A k \in DOMAIN b \ { "font" } : k \in DOMAIN s /\ s[k] = b[k]

\* C16: saving makes at most two writes, the second only after the first
\* failed; when saving fails a warning is printed, the settings stay as they
\* were, and the tool goes on to open the listed files.
C16_TwoAttemptsThenProceed ==
    /\ writes <= 2
    /\ cliPc = "retry" => writes = 1
    /\ Printed("Warning: could not save font preference") =>
           /\ writes \in { 1, 2 }
           /\ settings = settingsBefore
           /\ cliPc # "retry"
           /\ (cliPc = "exited" /\ appFound) =>
                  /\ exitCode = Some(0)
                  /\ launched = Handed(cliArgs.positionals)

\* both writes failed, the warning was printed and a file was still opened
C16_Witness ==
    /\ cliPc = "exited"
    /\ writes = 2
    /\ Printed("Warning: could not save font preference")
    /\ Len(launched) >= 1

\* ------------------------------------------------------------------------
\* Messages on the IPC channel
\* ------------------------------------------------------------------------

\* a one-way message; the payload fields a message does not carry are empty
Msg(name, text, path, flag) ==
    [name |-> name, text |-> text, path |-> path, flag |-> flag]

\* a request and the response to it
Req(name, path) == [name |-> name, path |-> path]

Resp(name, ok, text, path, dir) ==
    [name |-> name, ok |-> ok, text |-> text, path |-> path, dir |-> dir]

\* the requests (or responses) the channel can deliver next: any one of those
\* under way, for the channel keeps no order between requests in flight
Deliverable(bag) == BagToSet(bag)

\* ------------------------------------------------------------------------
\* The host process
\* ------------------------------------------------------------------------

FontSuffixes == { "system", "inter", "serif", "sans", "mono", "readable" }

\* the actions of the Font submenu built by buildMenu
FontActions == { "font_" \o f : f \in FontSuffixes }

FileActions == { "copy_file_path", "copy_dir_path", "copy_project_path", "reveal_finder" }

\* every action a menu item of buildMenu carries
MenuActions ==
    { "open_file", "install_cli", "associate_md", "export_pdf" }
        \cup FontActions \cup FileActions

\* action names no menu item carries
UnknownActions == { "font_bogus", "toggle_sidebar" }

\* the actions a click is taken from: every kind of menu item, one font
ClickActions ==
    { "open_file", "install_cli", "associate_md", "export_pdf", "font_mono" }
        \cup FileActions \cup UnknownActions

\* action.startsWith("font_"), over the action names of the model
StartsWithFont(action) ==
    \E f \in FontSuffixes \cup { "bogus" } : action = "font_" \o f

CliResults == { "ok", "cancelled", "Failed: EACCES" }

\* paths an open-file dialog or a drop can deliver
OpenPaths == { Abs(<<"p", "s", "b.md">>), Abs(<<"q", "gone.md">>) }

\* file arguments the host can be started with
InitialFiles == { Rel(<<"c.md">>), Rel(<<"gone", "..", "c.md">>) }

\* lines 167-292: the menu as a function of menuState
buildMenu(ms) ==
    [ fileItemsEnabled |-> ms.fileMenuEnabled,
      checkedFonts |-> { a \in FontActions : ms.checkedFont = a },
      associateChecked |-> ms.mdAssociated ]

\* menuClicked with an associate_md click that flips mdAssociated whatever
\* the helper answers
menuClicked_TogglesOnFailure(ms, action, helperOk, cli) ==
    LET quiet == [menuState |-> ms, rebuild |-> FALSE, sends |-> <<>>, dialog |-> FALSE]
    IN  IF action = "associate_md"
        THEN IF helperOk
             THEN [quiet EXCEPT !.menuState.mdAssociated = ~ms.mdAssociated,
                                !.rebuild = TRUE]
             ELSE [quiet EXCEPT !.menuState.mdAssociated = ~ms.mdAssociated,
                                !.sends =
                      <<Msg("showError", "Failed to set file association", Null, FALSE)>>]
        ELSE quiet

\* lines 399-460: what a menu click does to menuState, whether it rebuilds
\* the menu, the messages it sends and whether it opens a dialog
menuClicked(ms, action, helperOk, cli) ==
    LET quiet == [menuState |-> ms, rebuild |-> FALSE, sends |-> <<>>, dialog |-> FALSE]
    IN  IF action = "open_file" THEN [quiet EXCEPT !.dialog = TRUE]
        ELSE IF action = "install_cli"
        THEN [quiet EXCEPT !.sends = <<Msg("cliInstallResult", cli, Null, FALSE)>>]
        ELSE IF action = "associate_md"
        THEN IF helperOk
             THEN [quiet EXCEPT !.menuState.mdAssociated = ~ms.mdAssociated,
                                !.rebuild = TRUE]
             ELSE [quiet EXCEPT !.sends =
                      <<Msg("showError", "Failed to set file association", Null, FALSE)>>]
        ELSE IF action = "export_pdf"
        THEN [quiet EXCEPT !.sends =
                 <<Msg("showError", "Export as PDF is not yet supported", Null, FALSE)>>]
        ELSE IF StartsWithFont(action)
        THEN [quiet EXCEPT !.menuState.checkedFont = action,
                           !.rebuild = TRUE,
                           !.sends = <<Msg("setFont", action, Null, FALSE)>>]
        ELSE IF action \in FileActions
        THEN [quiet EXCEPT !.sends = <<Msg("menuAction", action, Null, FALSE)>>]
        ELSE quiet

\* findProjectRoot run to completion
RECURSIVE findProjectRootFrom(_, _, _)
findProjectRootFrom(git, wd, dir) ==
    LET s == fprStep(git, wd, dir)
    IN  IF s.pc = "done" THEN s.result ELSE findProjectRootFrom(git, wd, s.dir)

findProjectRoot(git, wd, filePath) ==
    findProjectRootFrom(git, wd, fprStartDir(git, wd, filePath))

onlyHost == <<envVars, readVars, fprVars, pdfVars, viewVars, lastOpen, cliVars, imgVars>>

\* lines 377-395: the association check, the first menu and the window
HostStartup ==
    /\ ~hostStarted
    /\ hostStarted' = TRUE
    /\ \E assoc \in BOOLEAN :
           /\ menuState' = [menuState EXCEPT !.mdAssociated = assoc]
           /\ menu' = Some(buildMenu(menuState'))
    /\ UNCHANGED <<winTitle, hostDialogs, clipboard, revealed, initialFile>>
    /\ UNCHANGED <<chanVars, events>>
    /\ UNCHANGED onlyHost

\* lines 399-460: the application-menu-clicked listener, on one action and
\* one outcome of the helpers it runs
HostMenuClickWith(action, helperOk, cli) ==
    /\ hostStarted
    /\ events < MaxEvents
    /\ events' = events + 1
    /\ LET r == menuClicked(menuState, action, helperOk, cli)
       IN  /\ menuState' = r.menuState
           /\ menu' = IF r.rebuild THEN Some(buildMenu(r.menuState)) ELSE menu
           /\ toView' = toView \o r.sends
           /\ hostDialogs' = IF r.dialog THEN hostDialogs + 1 ELSE hostDialogs
    /\ UNCHANGED <<hostStarted, winTitle, clipboard, revealed, initialFile>>
    /\ UNCHANGED <<toHost, reqs, resps>>
    /\ UNCHANGED onlyHost

HostMenuClickOf(action) ==
    \E helperOk \in BOOLEAN, cli \in CliResults :
        HostMenuClickWith(action, helperOk, cli)

HostMenuClick == \E action \in ClickActions : HostMenuClickOf(action)

\* lines 409-413: the dialog of an open_file click closes
HostDialogDone ==
    /\ hostDialogs > 0
    /\ hostDialogs' = hostDialogs - 1
    /\ \E paths \in { Null } \cup { Some(p) : p \in OpenPaths } :
           toView' = IF paths # Null
                     THEN Append(toView, Msg("openFile", "", paths, FALSE))
                     ELSE toView
    /\ UNCHANGED <<hostStarted, menuState, menu, winTitle, clipboard, revealed, initialFile>>
    /\ UNCHANGED <<toHost, reqs, resps, events>>
    /\ UNCHANGED onlyHost

\* lines 349-357: what requests.setMdAssociation does to menuState, whether
\* it rebuilds the menu, and its response: the value returned or the error
onSetMdAssociation(ms, enable, helperOk) ==
    IF helperOk
    THEN [menuState |-> [ms EXCEPT !.mdAssociated = enable],
          rebuild |-> TRUE,
          response |-> Resp("setMdAssociation", TRUE,
                            IF enable THEN "true" ELSE "false", Null, Null)]
    ELSE [menuState |-> ms,
          rebuild |-> FALSE,
          response |-> Resp("setMdAssociation", FALSE,
                            "Failed to set file association", Null, Null)]

\* lines 349-357: a setMdAssociation request, on one parameter and one
\* outcome of the helper (no code of the Render Surface sends the request;
\* the response goes back to whoever did)
HostSetMdAssociationOf(enable, helperOk) ==
    /\ hostStarted
    /\ events < MaxEvents
    /\ events' = events + 1
    /\ LET r == onSetMdAssociation(menuState, enable, helperOk)
       IN  /\ menuState' = r.menuState
           /\ menu' = IF r.rebuild THEN Some(buildMenu(r.menuState)) ELSE menu
           /\ resps' = resps (+) SetToBag({ r.response })
    /\ UNCHANGED <<hostStarted, winTitle, hostDialogs, clipboard, revealed, initialFile>>
    /\ UNCHANGED <<toView, toHost, reqs>>
    /\ UNCHANGED onlyHost

HostOnSetMdAssociation ==
    \E enable \in BOOLEAN, helperOk \in BOOLEAN :
        HostSetMdAssociationOf(enable, helperOk)
hostQuiet == <<hostStarted, hostDialogs, initialFile>>

\* lines 360-363: messages.syncFontMenu
HostOnSyncFontMenu ==
    /\ hostStarted
    /\ toHost # <<>>
    /\ Head(toHost).name = "syncFontMenu"
    /\ menuState' = [menuState EXCEPT !.checkedFont = Head(toHost).text]
    /\ menu' = Some(buildMenu(menuState'))
    /\ toHost' = Tail(toHost)
    /\ UNCHANGED <<hostQuiet, winTitle, clipboard, revealed>>
    /\ UNCHANGED <<toView, reqs, resps, events>>
    /\ UNCHANGED onlyHost

\* setFileMenuEnabled without its call of buildMenu
HostOnSetFileMenuEnabled_NoRebuild ==
    /\ hostStarted
    /\ toHost # <<>>
    /\ Head(toHost).name = "setFileMenuEnabled"
    /\ menuState' = [menuState EXCEPT !.fileMenuEnabled = Head(toHost).flag]
    /\ toHost' = Tail(toHost)
    /\ UNCHANGED <<hostQuiet, menu, winTitle, clipboard, revealed>>
    /\ UNCHANGED <<toView, reqs, resps, events>>
    /\ UNCHANGED onlyHost

\* lines 364-367: messages.setFileMenuEnabled
HostOnSetFileMenuEnabled ==
    /\ hostStarted
    /\ toHost # <<>>
    /\ Head(toHost).name = "setFileMenuEnabled"
    /\ menuState' = [menuState EXCEPT !.fileMenuEnabled = Head(toHost).flag]
    /\ menu' = Some(buildMenu(menuState'))
    /\ toHost' = Tail(toHost)
    /\ UNCHANGED <<hostQuiet, winTitle, clipboard, revealed>>
    /\ UNCHANGED <<toView, reqs, resps, events>>
    /\ UNCHANGED onlyHost

\* lines 368-370: messages.setWindowTitle
HostOnSetWindowTitle ==
    /\ hostStarted
    /\ toHost # <<>>
    /\ Head(toHost).name = "setWindowTitle"
    /\ winTitle' = Head(toHost).text
    /\ toHost' = Tail(toHost)
    /\ UNCHANGED <<hostQuiet, menuState, menu, clipboard, revealed>>
    /\ UNCHANGED <<toView, reqs, resps, events>>
    /\ UNCHANGED onlyHost

\* the response of the host's readFile handler (lines 300-302) to request r
readFileResponse(git, wd, r) ==
    LET res == readFile(git, wd, The(r.path))
    IN  IF res.ok
        THEN Resp("readFile", TRUE, res.content, Some(res.path), Some(res.dir))
        ELSE Resp("readFile", FALSE, res.error, Null, Null)

\* lines 300-302: requests.readFile, on request r
HostReadFileOf(r) ==
    /\ hostStarted
    /\ BagIn(r, reqs)
    /\ r.name = "readFile"
    /\ reqs' = reqs (-) SetToBag({ r })
    /\ resps' = resps (+) SetToBag({ readFileResponse(gitDirs, cwd, r) })
    /\ UNCHANGED hostVars
    /\ UNCHANGED <<toView, toHost, events>>
    /\ UNCHANGED onlyHost

HostOnReadFile == \E r \in Deliverable(reqs) : HostReadFileOf(r)

\* lines 322-324: requests.findProjectRoot
HostOnFindProjectRoot ==
    /\ hostStarted
    /\ \E r \in Deliverable(reqs) :
           /\ r.name = "findProjectRoot"
           /\ reqs' = reqs (-) SetToBag({ r })
           /\ resps' = resps (+) SetToBag({ Resp("findProjectRoot", TRUE, "",
                         findProjectRoot(gitDirs, cwd, The(r.path)), Null) })
    /\ UNCHANGED hostVars
    /\ UNCHANGED <<toView, toHost, events>>
    /\ UNCHANGED onlyHost

\* lines 303-321: requests.getInitialFile (the first file argument, if any)
HostOnGetInitialFile ==
    /\ hostStarted
    /\ \E r \in Deliverable(reqs) :
           /\ r.name = "getInitialFile"
           /\ reqs' = reqs (-) SetToBag({ r })
           /\ resps' = resps (+) SetToBag({ Resp("getInitialFile", TRUE, "", initialFile, Null) })
    /\ UNCHANGED hostVars
    /\ UNCHANGED <<toView, toHost, events>>
    /\ UNCHANGED onlyHost

\* lines 331-342: requests.showOpenDialog, answered when the dialog closes
HostOnShowOpenDialog ==
    /\ hostStarted
    /\ \E r \in Deliverable(reqs), paths \in { Null } \cup { Some(p) : p \in OpenPaths } :
           /\ r.name = "showOpenDialog"
           /\ reqs' = reqs (-) SetToBag({ r })
           /\ resps' = resps (+) SetToBag({ Resp("showOpenDialog", TRUE, "", paths, Null) })
    /\ UNCHANGED hostVars
    /\ UNCHANGED <<toView, toHost, events>>
    /\ UNCHANGED onlyHost

\* lines 328-330: requests.copyToClipboard
HostOnCopyToClipboard ==
    /\ hostStarted
    /\ \E r \in Deliverable(reqs) :
           /\ r.name = "copyToClipboard"
           /\ reqs' = reqs (-) SetToBag({ r })
           /\ clipboard' = r.path
    /\ UNCHANGED <<hostQuiet, menuState, menu, winTitle, revealed>>
    /\ UNCHANGED <<toView, toHost, resps, events>>
    /\ UNCHANGED onlyHost

\* lines 325-327: requests.revealInFinder
HostOnRevealInFinder ==
    /\ hostStarted
    /\ \E r \in Deliverable(reqs) :
           /\ r.name = "revealInFinder"
           /\ reqs' = reqs (-) SetToBag({ r })
           /\ revealed' = r.path
    /\ UNCHANGED <<hostQuiet, menuState, menu, winTitle, clipboard>>
    /\ UNCHANGED <<toView, toHost, resps, events>>
    /\ UNCHANGED onlyHost

\* ------------------------------------------------------------------------
\* The Render Surface
\* ------------------------------------------------------------------------

\* lines 426-433: fontClassMap
fontClassMap ==
    ("font_system" :> "font-system") @@ ("font_inter" :> "font-inter") @@
    ("font_serif" :> "font-serif") @@ ("font_sans" :> "font-sans") @@
    ("font_mono" :> "font-mono") @@ ("font_readable" :> "font-readable")

\* document.body.className after applyFont(key)
fontClassOf(key) ==
    IF key \in DOMAIN fontClassMap THEN fontClassMap[key] ELSE "font-system"

\* values localStorage holds for "mdview-font" at the first start: nothing,
\* or a font an earlier session saved (other keys get there by setFont)
StoredFonts == { Null, Some("font_serif") }

\* files the user can drop: with a path, or with name and text only
DropFiles ==
    { [path |-> Some(Abs(<<"q", "m.md">>)), name |-> "m.md", text |-> "A"],
      [path |-> Null, name |-> "d.md", text |-> "D"] }

\* currentFilePath.split("/").pop()
fileNameOf(path) ==
    IF path.segs = <<>> THEN "" ELSE path.segs[Len(path.segs)]

\* fileName + " \u2014 mdview", the dash written in ASCII
titleOf(fileName) == fileName \o " - mdview"

\* renderMarkdown(raw): the rendered document
rendered(raw) == [kind |-> "doc", text |-> raw]

\* the error panel of openFile's catch branch
errorPanel(err) == [kind |-> "error", text |-> err]

onlyView == <<envVars, readVars, fprVars, pdfVars, hostVars, cliVars, imgVars>>

viewFonts == <<bodyClass, storedFont>>

viewDoc == <<currentFilePath, currentBaseDir, currentProjectRoot, contentEl>>

\* ViewStartup without the syncFontMenu report to the host
ViewStartup_NoSync ==
    /\ hostStarted
    /\ ~viewStarted
    /\ viewStarted' = TRUE
    /\ IF storedFont # Null /\ The(storedFont) \in DOMAIN fontClassMap
       THEN bodyClass' = fontClassOf(The(storedFont))
       ELSE UNCHANGED bodyClass
    /\ reqs' = reqs (+) SetToBag({ Req("getInitialFile", Null) })
    /\ UNCHANGED <<viewDoc, storedFont, lastAlert, readers>>
    /\ UNCHANGED <<toHost, toView, resps, events, lastOpen>>
    /\ UNCHANGED onlyView

\* lines 441-445 and 491-495: restore the saved font, ask for the initial file
ViewStartup ==
    /\ hostStarted
    /\ ~viewStarted
    /\ viewStarted' = TRUE
    /\ IF storedFont # Null /\ The(storedFont) \in DOMAIN fontClassMap
       THEN /\ bodyClass' = fontClassOf(The(storedFont))
            /\ toHost' = Append(toHost, Msg("syncFontMenu", The(storedFont), Null, FALSE))
       ELSE UNCHANGED <<bodyClass, toHost>>
    /\ reqs' = reqs (+) SetToBag({ Req("getInitialFile", Null) })
    /\ UNCHANGED <<viewDoc, storedFont, lastAlert, readers>>
    /\ UNCHANGED <<toView, resps, events, lastOpen>>
    /\ UNCHANGED onlyView

\* lines 491-495: the answer to getInitialFile; openFile if there is a file
ViewOnInitialFile ==
    /\ viewStarted
    /\ \E r \in Deliverable(resps) :
           /\ r.name = "getInitialFile"
           /\ resps' = resps (-) SetToBag({ r })
           /\ IF r.path # Null
              THEN /\ reqs' = reqs (+) SetToBag({ Req("readFile", r.path) })
                   /\ lastOpen' = r.path
              ELSE UNCHANGED <<reqs, lastOpen>>
    /\ UNCHANGED <<viewStarted, viewDoc, viewFonts, lastAlert, readers>>
    /\ UNCHANGED <<toView, toHost, events>>
    /\ UNCHANGED onlyView

\* lines 315-317 and 393-395: the openFile message; openFile up to its await
ViewOnOpenFile ==
    /\ viewStarted
    /\ toView # <<>>
    /\ Head(toView).name = "openFile"
    /\ toView' = Tail(toView)
    /\ reqs' = reqs (+) SetToBag({ Req("readFile", Head(toView).path) })
    /\ lastOpen' = Head(toView).path
    /\ UNCHANGED <<viewStarted, viewDoc, viewFonts, lastAlert, readers>>
    /\ UNCHANGED <<toHost, resps, events>>
    /\ UNCHANGED onlyView

\* lines 318-320 and 435-438: the setFont message; applyFont
ViewOnSetFont ==
    /\ viewStarted
    /\ toView # <<>>
    /\ Head(toView).name = "setFont"
    /\ toView' = Tail(toView)
    /\ bodyClass' = fontClassOf(Head(toView).text)
    /\ storedFont' = Some(Head(toView).text)
    /\ UNCHANGED <<viewStarted, viewDoc, lastAlert, readers>>
    /\ UNCHANGED <<toHost, reqs, resps, events, lastOpen>>
    /\ UNCHANGED onlyView

\* menuActionRequest without the early return on a null currentFilePath
menuActionRequest_NoEarlyReturn(action, filePath, baseDir, projectRoot) ==
    IF action = "copy_file_path" THEN { Req("copyToClipboard", filePath) }
    ELSE IF action = "copy_dir_path" /\ baseDir # Null
    THEN { Req("copyToClipboard", baseDir) }
    ELSE IF action = "copy_project_path" /\ projectRoot # Null
    THEN { Req("copyToClipboard", projectRoot) }
    ELSE IF action = "reveal_finder" THEN { Req("revealInFinder", filePath) }
    ELSE {}

\* lines 321-342: the request a menuAction message makes, if any
menuActionRequest(action, filePath, baseDir, projectRoot) ==
    IF filePath = Null THEN {}
    ELSE IF action = "copy_file_path" THEN { Req("copyToClipboard", filePath) }
    ELSE IF action = "copy_dir_path" /\ baseDir # Null
    THEN { Req("copyToClipboard", baseDir) }
    ELSE IF action = "copy_project_path" /\ projectRoot # Null
    THEN { Req("copyToClipboard", projectRoot) }
    ELSE IF action = "reveal_finder" THEN { Req("revealInFinder", filePath) }
    ELSE {}

\* lines 321-342: the menuAction message
ViewOnMenuAction ==
    /\ viewStarted
    /\ toView # <<>>
    /\ Head(toView).name = "menuAction"
    /\ toView' = Tail(toView)
    /\ reqs' = reqs (+) SetToBag(menuActionRequest(Head(toView).text, currentFilePath,
                                                   currentBaseDir, currentProjectRoot))
    /\ UNCHANGED <<viewStarted, viewDoc, viewFonts, lastAlert, readers>>
    /\ UNCHANGED <<toHost, resps, events, lastOpen>>
    /\ UNCHANGED onlyView

\* lines 343-345: the showError message
ViewOnShowError ==
    /\ viewStarted
    /\ toView # <<>>
    /\ Head(toView).name = "showError"
    /\ toView' = Tail(toView)
    /\ lastAlert' = Some(Head(toView).text)
    /\ UNCHANGED <<viewStarted, viewDoc, viewFonts, readers>>
    /\ UNCHANGED <<toHost, reqs, resps, events, lastOpen>>
    /\ UNCHANGED onlyView

\* lines 346-356: the cliInstallResult message
ViewOnCliInstallResult ==
    /\ viewStarted
    /\ toView # <<>>
    /\ Head(toView).name = "cliInstallResult"
    /\ toView' = Tail(toView)
    /\ lastAlert' =
           IF Head(toView).text = "ok" THEN Some("installed")
           ELSE IF Head(toView).text = "already-installed" THEN Some("already installed")
           ELSE IF Head(toView).text = "cancelled" THEN lastAlert
           ELSE Some("Failed to install command line tool")
    /\ UNCHANGED <<viewStarted, viewDoc, viewFonts, readers>>
    /\ UNCHANGED <<toHost, reqs, resps, events, lastOpen>>
    /\ UNCHANGED onlyView

\* lines 449-454 and 417-418: Cmd+O; showOpenDialog up to its await
ViewKeyOpen ==
    /\ viewStarted
    /\ events < MaxEvents
    /\ events' = events + 1
    /\ reqs' = reqs (+) SetToBag({ Req("showOpenDialog", Null) })
    /\ UNCHANGED <<viewStarted, viewDoc, viewFonts, lastAlert, readers>>
    /\ UNCHANGED <<toView, toHost, resps, lastOpen>>
    /\ UNCHANGED onlyView

\* lines 419-421: showOpenDialog after its await; openFile if a file was chosen
ViewOnDialogResult ==
    /\ viewStarted
    /\ \E r \in Deliverable(resps) :
           /\ r.name = "showOpenDialog"
           /\ resps' = resps (-) SetToBag({ r })
           /\ IF r.path # Null
              THEN /\ reqs' = reqs (+) SetToBag({ Req("readFile", r.path) })
                   /\ lastOpen' = r.path
              ELSE UNCHANGED <<reqs, lastOpen>>
    /\ UNCHANGED <<viewStarted, viewDoc, viewFonts, lastAlert, readers>>
    /\ UNCHANGED <<toView, toHost, events>>
    /\ UNCHANGED onlyView

\* lines 463-487: a drop; openFile when the file has a path, a FileReader
\* otherwise
ViewDrop ==
    /\ viewStarted
    /\ events < MaxEvents
    /\ events' = events + 1
    /\ \E file \in DropFiles :
           IF file.path # Null
           THEN /\ reqs' = reqs (+) SetToBag({ Req("readFile", file.path) })
                /\ lastOpen' = file.path
                /\ UNCHANGED readers
           ELSE /\ readers' = readers \cup { [name |-> file.name, text |-> file.text] }
                /\ UNCHANGED <<reqs, lastOpen>>
    /\ UNCHANGED <<viewStarted, viewDoc, viewFonts, lastAlert>>
    /\ UNCHANGED <<toView, toHost, resps>>
    /\ UNCHANGED onlyView

\* reader.onload without the assignment currentBaseDir = null
ViewReaderLoaded_KeepsBaseDir ==
    /\ viewStarted
    /\ \E rd \in readers :
           /\ readers' = readers \ { rd }
           /\ currentFilePath' = Some(Rel(<<rd.name>>))
           /\ contentEl' = rendered(rd.text)
           /\ toHost' = Append(toHost, Msg("setWindowTitle", titleOf(rd.name), Null, FALSE))
    /\ lastOpen' = Null
    /\ UNCHANGED <<viewStarted, currentBaseDir, currentProjectRoot, viewFonts, lastAlert>>
    /\ UNCHANGED <<toView, reqs, resps, events>>
    /\ UNCHANGED onlyView

\* lines 477-483: reader.onload
ViewReaderLoaded ==
    /\ viewStarted
    /\ \E rd \in readers :
           /\ readers' = readers \ { rd }
           /\ currentFilePath' = Some(Rel(<<rd.name>>))
           /\ currentBaseDir' = Null
           /\ contentEl' = rendered(rd.text)
           /\ toHost' = Append(toHost, Msg("setWindowTitle", titleOf(rd.name), Null, FALSE))
    /\ lastOpen' = Null
    /\ UNCHANGED <<viewStarted, currentProjectRoot, viewFonts, lastAlert>>
    /\ UNCHANGED <<toView, reqs, resps, events>>
    /\ UNCHANGED onlyView

\* lines 396-408: openFile after its await, when readFile answered
ViewReadFileOk ==
    /\ viewStarted
    /\ \E r \in Deliverable(resps) :
           /\ r.name = "readFile"
           /\ r.ok
           /\ resps' = resps (-) SetToBag({ r })
           /\ currentFilePath' = r.path
           /\ currentBaseDir' = r.dir
           /\ contentEl' = rendered(r.text)
           /\ toHost' = toHost \o
                  << Msg("setWindowTitle", titleOf(fileNameOf(The(r.path))), Null, FALSE),
                     Msg("setFileMenuEnabled", "", Null, TRUE) >>
           /\ reqs' = reqs (+) SetToBag({ Req("findProjectRoot", r.path) })
    /\ UNCHANGED <<viewStarted, currentProjectRoot, viewFonts, lastAlert, readers>>
    /\ UNCHANGED <<toView, events, lastOpen>>
    /\ UNCHANGED onlyView

\* what openFile's catch branch (lines 409-412) does to the document state
openFailed(filePath, baseDir, err) ==
    [currentFilePath |-> filePath, currentBaseDir |-> baseDir,
     contentEl |-> errorPanel(err)]

\* the error branch of openFile enabling the file menu items all the same
ViewReadFileFailed_EnablesMenu ==
    /\ viewStarted
    /\ \E r \in Deliverable(resps) :
           /\ r.name = "readFile"
           /\ ~r.ok
           /\ resps' = resps (-) SetToBag({ r })
           /\ LET s == openFailed(currentFilePath, currentBaseDir, r.text)
              IN  /\ currentFilePath' = s.currentFilePath
                  /\ currentBaseDir' = s.currentBaseDir
                  /\ contentEl' = s.contentEl
    /\ toHost' = Append(toHost, Msg("setFileMenuEnabled", "", Null, TRUE))
    /\ UNCHANGED <<viewStarted, currentProjectRoot, viewFonts, lastAlert, readers>>
    /\ UNCHANGED <<toView, reqs, events, lastOpen>>
    /\ UNCHANGED onlyView

\* lines 409-412: openFile after its await, when readFile threw
ViewReadFileFailed ==
    /\ viewStarted
    /\ \E r \in Deliverable(resps) :
           /\ r.name = "readFile"
           /\ ~r.ok
           /\ resps' = resps (-) SetToBag({ r })
           /\ LET s == openFailed(currentFilePath, currentBaseDir, r.text)
              IN  /\ currentFilePath' = s.currentFilePath
                  /\ currentBaseDir' = s.currentBaseDir
                  /\ contentEl' = s.contentEl
    /\ UNCHANGED <<viewStarted, currentProjectRoot, viewFonts, lastAlert, readers>>
    /\ UNCHANGED <<toView, toHost, reqs, events, lastOpen>>
    /\ UNCHANGED onlyView

\* the answer to findProjectRoot taken as a failure when it is null
ViewOnProjectRoot_NullIsError ==
    /\ viewStarted
    /\ \E r \in Deliverable(resps) :
           /\ r.name = "findProjectRoot"
           /\ resps' = resps (-) SetToBag({ r })
           /\ currentProjectRoot' = r.path
           /\ contentEl' = IF r.path = Null THEN errorPanel("no project root") ELSE contentEl
    /\ UNCHANGED <<viewStarted, currentFilePath, currentBaseDir>>
    /\ UNCHANGED <<viewFonts, lastAlert, readers>>
    /\ UNCHANGED <<toView, toHost, reqs, events, lastOpen>>
    /\ UNCHANGED onlyView

\* lines 403-405: the answer to findProjectRoot
ViewOnProjectRoot ==
    /\ viewStarted
    /\ \E r \in Deliverable(resps) :
           /\ r.name = "findProjectRoot"
           /\ resps' = resps (-) SetToBag({ r })
           /\ currentProjectRoot' = r.path
    /\ UNCHANGED <<viewStarted, currentFilePath, currentBaseDir, contentEl>>
    /\ UNCHANGED <<viewFonts, lastAlert, readers>>
    /\ UNCHANGED <<toView, toHost, reqs, events, lastOpen>>
    /\ UNCHANGED onlyView

\* lines 403-405: the findProjectRoot promise rejects (the request failed or
\* timed out); .then has no rejection handler, so nothing is assigned
ViewProjectRootRejected ==
    /\ viewStarted
    /\ \E r \in Deliverable(reqs) :
           /\ r.name = "findProjectRoot"
           /\ reqs' = reqs (-) SetToBag({ r })
    /\ UNCHANGED <<viewStarted, viewDoc, viewFonts, lastAlert, readers>>
    /\ UNCHANGED <<toView, toHost, resps, events, lastOpen>>
    /\ UNCHANGED onlyView

\* ------------------------------------------------------------------------
\* The application: host and Render Surface over the IPC channel
\* ------------------------------------------------------------------------

Init ==
    /\ cwd = <<"q">>
    /\ gitDirs = { <<"p">> }
    /\ storedFont \in StoredFonts
    /\ initialFile \in { Null } \cup { Some(f) : f \in InitialFiles }
    /\ AppStart
    /\ ReadIdle
    /\ FprIdle
    /\ PdfIdle
    /\ CliIdle
    /\ ImgIdle

Next ==
    \/ HostStartup
    \/ HostMenuClick
    \/ HostDialogDone
    \/ HostOnSetMdAssociation
    \/ HostOnSyncFontMenu
    \/ HostOnSetFileMenuEnabled
    \/ HostOnSetWindowTitle
    \/ HostOnReadFile
    \/ HostOnFindProjectRoot
    \/ HostOnGetInitialFile
    \/ HostOnShowOpenDialog
    \/ HostOnCopyToClipboard
    \/ HostOnRevealInFinder
    \/ ViewStartup
    \/ ViewOnInitialFile
    \/ ViewOnOpenFile
    \/ ViewOnSetFont
    \/ ViewOnMenuAction
    \/ ViewOnShowError
    \/ ViewOnCliInstallResult
    \/ ViewKeyOpen
    \/ ViewOnDialogResult
    \/ ViewDrop
    \/ ViewReaderLoaded
    \/ ViewReadFileOk
    \/ ViewReadFileFailed
    \/ ViewOnProjectRoot
    \/ ViewProjectRootRejected

Spec == Init /\ [][Next]_vars


\* "Quit mdview" (bun/index.ts line 180) followed by a new launch with the
\* same arguments: both module bodies run again from their initial state,
\* messages in flight are lost, localStorage and the file system persist
AppRelaunch ==
    /\ hostStarted
    /\ viewStarted
    /\ hostStarted' = FALSE
    /\ menuState' = [fileMenuEnabled |-> FALSE, checkedFont |-> "font_system",
                     mdAssociated |-> FALSE]
    /\ menu' = Null
    /\ winTitle' = "mdview"
    /\ hostDialogs' = 0
    /\ clipboard' = Null
    /\ revealed' = Null
    /\ viewStarted' = FALSE
    /\ currentFilePath' = Null
    /\ currentBaseDir' = Null
    /\ currentProjectRoot' = Null
    /\ contentEl' = [kind |-> "welcome", text |-> ""]
    /\ bodyClass' = ""
    /\ lastAlert' = Null
    /\ readers' = {}
    /\ toView' = <<>>
    /\ toHost' = <<>>
    /\ reqs' = EmptyBag
    /\ resps' = EmptyBag
    /\ events' = 0
    /\ lastOpen' = Null
    /\ UNCHANGED <<storedFont, initialFile>>
    /\ UNCHANGED <<envVars, readVars, fprVars, pdfVars, cliVars, imgVars>>

\* every font_* action a click can carry: the Font submenu and one action
\* no menu item carries
FontClicks == FontActions \cup { "font_bogus" }

HostFontClick == \E action \in FontClicks : HostMenuClickOf(action)

\* ------------------------------------------------------------------------
\* Font selection over several sessions: the application started without
\* a file, font clicks, quit and relaunch
\* ------------------------------------------------------------------------

InitFont ==
    /\ cwd = <<"q">>
    /\ gitDirs = { <<"p">> }
    /\ storedFont \in StoredFonts
    /\ initialFile = Null
    /\ AppStart
    /\ ReadIdle
    /\ FprIdle
    /\ PdfIdle
    /\ CliIdle
    /\ ImgIdle

NextFont ==
    \/ HostStartup
    \/ ViewStartup
    \/ HostOnGetInitialFile
    \/ ViewOnInitialFile
    \/ HostFontClick
    \/ ViewOnSetFont
    \/ HostOnSyncFontMenu
    \/ AppRelaunch

SpecFont == InitFont /\ [][NextFont]_vars
\* ------------------------------------------------------------------------
\* Properties of the application
\* ------------------------------------------------------------------------

\* the operating system finds something at the path
PathExists(path) == Lookup(gitDirs, cwd, path).ok

\* the error branch shows the error panel and writes nothing else: neither
\* the current path, the base directory nor a window title
ErrorBranchWritesOnlyPanel ==
    ViewReadFileFailed =>
        /\ contentEl'.kind = "error"
        /\ UNCHANGED <<currentFilePath, currentBaseDir, currentProjectRoot>>
        /\ UNCHANGED <<toHost, reqs, winTitle>>

\* a readFile request for a path that does not exist is answered by an error
NonexistentPathFails ==
    \A r \in Deliverable(reqs) :
        (HostReadFileOf(r) /\ ~PathExists(The(r.path)))
            => ~readFileResponse(gitDirs, cwd, r).ok

\* C2: for every path that does not exist the readFile request fails, and
\* openFile then shows the error panel and overwrites neither the current
\* path, the base directory nor the window title with data of the failed file.
C2_FailedOpenIsClean ==
    [][NonexistentPathFails /\ ErrorBranchWritesOnlyPanel]_vars

\* C3: currentFilePath is the canonical path after an open that succeeds and
\* null after every open that ends in the error branch.
C3_PathClearedOnFailedOpen ==
    [][ /\ ViewReadFileFailed => currentFilePath' = Null
        /\ \A r \in Deliverable(resps) :
               (ViewReadFileOk /\ resps' = resps (-) SetToBag({ r }))
                   => currentFilePath' = r.path ]_vars

\* C4: whenever the host is idle, the menu last installed is the one
\* buildMenu makes of the current menuState.
C4_MenuIsProjection ==
    hostStarted => menu = Some(buildMenu(menuState))

\* the menu follows a menuState every field of which has left its initial value
C4_Witness ==
    /\ menuState.fileMenuEnabled
    /\ menuState.checkedFont # "font_system"
    /\ menuState.mdAssociated
    /\ menu = Some(buildMenu(menuState))

\* C5: a click on an action no menu item carries changes no field of
\* menuState, installs no menu and sends nothing to the Render Surface.
C5_UnknownActionIsNoOp ==
    [][\A action \in UnknownActions :
           HostMenuClickOf(action) => UNCHANGED <<menuState, menu, toView, hostDialogs>>]_vars

\* no readFile request of an openFile call is waiting or on its way
NoOpenInFlight ==
    /\ \A r \in BagToSet(reqs) : r.name # "readFile"
    /\ \A r \in BagToSet(resps) : r.name # "readFile"

\* C6: once every open has completed, whatever the order of the responses,
\* the document shown is the one of the latest openFile call.
C6_LatestOpenWins ==
    \A p \in lastOpen :
        LET res == readFile(gitDirs, cwd, p)
        IN  (NoOpenInFlight /\ res.ok) =>
                /\ currentFilePath = Some(res.path)
                /\ currentBaseDir = Some(res.dir)
                /\ contentEl = rendered(res.content)

\* a successful open renders and enables the file menu in the step that
\* issues the findProjectRoot request
OpenDoesNotWaitForRoot ==
    ViewReadFileOk =>
        /\ contentEl'.kind = "doc"
        /\ currentFilePath' # Null
        /\ Len(toHost') = Len(toHost) + 2
        /\ toHost'[Len(toHost')] = Msg("setFileMenuEnabled", "", Null, TRUE)
        /\ \E r \in Deliverable(reqs') : r.name = "findProjectRoot"

\* whatever becomes of a findProjectRoot request, the document, the current
\* path and the file menu stay as they are
RootAnswerTouchesOnlyRoot ==
    (HostOnFindProjectRoot \/ ViewOnProjectRoot \/ ViewProjectRootRejected) =>
        /\ UNCHANGED <<contentEl, currentFilePath, currentBaseDir>>
        /\ UNCHANGED <<menuState, menu, toHost, toView, winTitle>>

\* C11: project-root discovery never blocks file display: a successful open
\* renders and sends setFileMenuEnabled(true) without waiting for the
\* findProjectRoot response, and a findProjectRoot request that answers null,
\* fails or never answers changes neither the document, currentFilePath nor
\* the file menu.
C11_RootNeverBlocksDisplay ==
    [][OpenDoesNotWaitForRoot /\ RootAnswerTouchesOnlyRoot]_vars

\* the file menu is enabled and the document shown while the findProjectRoot
\* request of the open has not been answered
C11_Witness ==
    /\ \E r \in Deliverable(reqs) : r.name = "findProjectRoot"
    /\ contentEl.kind = "doc"
    /\ currentFilePath # Null
    /\ currentProjectRoot = Null
    /\ menuState.fileMenuEnabled


\* the host has been told, or is about to be told, that x is the font in use
ReportedToHost(x) ==
    \/ /\ menuState.checkedFont = x
       /\ menu # Null
       /\ The(menu).checkedFonts = { x }
    \/ \E i \in 1..Len(toHost) :
          /\ toHost[i].name = "syncFontMenu"
          /\ toHost[i].text = x

\* a session in which no font has been chosen yet finds the font x that
\* an earlier session left in localStorage, applies it and reports it
FreshSessionRestores ==
    \A x \in FontActions :
        (viewStarted /\ events = 0 /\ storedFont = Some(x))
            => /\ bodyClass = fontClassMap[x]
               /\ ReportedToHost(x)

\* applyFont saves the key it is given; a relaunch keeps what was saved
SaveSurvivesRelaunch ==
    /\ ViewOnSetFont => storedFont' = Some(Head(toView).text)
    /\ AppRelaunch => storedFont' = storedFont

appliedFont(class) == IF class = "" THEN "font-system" ELSE class

\* the Render Surface applies system for a font outside the closed set,
\* from a setFont message and from localStorage at startup
ViewFallsBackToSystem ==
    /\ (ViewOnSetFont /\ Head(toView).text \notin FontActions)
           => appliedFont(bodyClass') = "font-system"
    /\ (ViewStartup /\ storedFont # Null /\ The(storedFont) \notin FontActions)
           => appliedFont(bodyClass') = "font-system"

\* the host records system for a font outside the closed set, from a
\* font_* menu action and from a syncFontMenu message
HostFallsBackToSystem ==
    /\ \A action \in UnknownActions :
           (HostMenuClickOf(action) /\ StartsWithFont(action))
               => menuState'.checkedFont = "font_system"
    /\ (HostOnSyncFontMenu /\ Head(toHost).text \notin FontActions)
           => menuState'.checkedFont = "font_system"

\* C18: the font id is a closed set: for every font value outside the
\* fixed set, whether it arrives in a setFont or syncFontMenu message, as a
\* font_* menu action, or from persisted storage at startup, the font
\* applied by the Render Surface and the font recorded by the host both
\* fall back to system.
C18_UnknownFontFallsBack == [][ViewFallsBackToSystem /\ HostFallsBackToSystem]_vars

AssociationErrorSent ==
    toView' = Append(toView, Msg("showError", "Failed to set file association", Null, FALSE))

AssociationRequestFailed ==
    resps' = resps (+) SetToBag({ Resp("setMdAssociation", FALSE,
                                       "Failed to set file association", Null, Null) })

\* a helper that fails leaves menuState and the menu as they were, and the
\* failure goes out as a showError message or as a failed response
FailedHelperChangesNothing ==
    /\ \A cli \in CliResults :
           HostMenuClickWith("associate_md", FALSE, cli)
               => /\ menuState' = menuState
                  /\ menu' = menu
                  /\ AssociationErrorSent
    /\ \A enable \in BOOLEAN :
           HostSetMdAssociationOf(enable, FALSE)
               => /\ menuState' = menuState
                  /\ menu' = menu
                  /\ AssociationRequestFailed

\* a helper that succeeds sets mdAssociated to the requested value
HelperSuccessSetsAssociation ==
    /\ \A cli \in CliResults :
           HostMenuClickWith("associate_md", TRUE, cli)
               => /\ menuState'.mdAssociated = ~menuState.mdAssociated
                  /\ menu' = Some(buildMenu(menuState'))
    /\ \A enable \in BOOLEAN :
           HostSetMdAssociationOf(enable, TRUE)
               => /\ menuState'.mdAssociated = enable
                  /\ menu' = Some(buildMenu(menuState'))

\* once the host is running, mdAssociated changes only in a step whose
\* helper call succeeded
OnlySuccessChangesAssociation ==
    (hostStarted /\ menuState'.mdAssociated # menuState.mdAssociated)
        => \/ \E cli \in CliResults : HostMenuClickWith("associate_md", TRUE, cli)
           \/ \E enable \in BOOLEAN : HostSetMdAssociationOf(enable, TRUE)

\* C19: when the external helper fails to change the file association,
\* menuState.mdAssociated keeps its previous value and the menu is not
\* changed, and the failure is surfaced (a showError message for the
\* associate_md menu click, a failed response for setMdAssociation); only a
\* successful helper call sets mdAssociated to the requested value.
C19_FailedAssociationChangesNothing ==
    [][/\ FailedHelperChangesNothing
       /\ HelperSuccessSetsAssociation
       /\ OnlySuccessChangesAssociation]_vars

\* the helper has failed on an associate_md click: the error is on its way
\* to the Render Surface and the menu still shows the association found at
\* startup
C19_Witness ==
    /\ events = 1
    /\ \E i \in 1..Len(toView) :
           /\ toView[i].name = "showError"
           /\ toView[i].text = "Failed to set file association"
    /\ menu = Some(buildMenu(menuState))

\* the menu items whose click is to be forwarded to the Render Surface
ForwardedActions == FontActions \cup FileActions \cup { "export_pdf" }

\* the one message that carries a forwarded action
carries(m, action) ==
    IF action \in FontActions THEN m.name = "setFont" /\ m.text = action
    ELSE IF action \in FileActions THEN m.name = "menuAction" /\ m.text = action
    ELSE m.name = "exportPDF"

\* a click on a forwarded item appends exactly one message, and that
\* message carries the action
ClickIsForwarded ==
    \A action \in ForwardedActions :
        HostMenuClickOf(action)
            => /\ Len(toView') = Len(toView) + 1
               /\ SubSeq(toView', 1, Len(toView)) = toView
               /\ carries(toView'[Len(toView')], action)

\* C20: every click on a font, copy-file-path, copy-folder-path,
\* copy-project-path, reveal-in-Finder or export-PDF menu item is forwarded
\* to the Render Surface as exactly one one-way message that carries that
\* action (setFont with the clicked font id, menuAction with the clicked
\* action name, or the export-PDF trigger), while open-file, install-CLI
\* and associate-md are handled in the host.
C20_ClicksAreForwarded == [][ClickIsForwarded]_vars


\* C22: in every reachable state of the Render Surface, currentBaseDir is
\* either null or the parent directory of currentFilePath, and it is null
\* whenever the displayed content has no backing file (content dropped in
\* memory, whose currentFilePath is a bare file name); this holds after any
\* sequence of successful opens, failed opens and drops.
C22_BaseDirIsParentOrNull ==
    /\ currentBaseDir # Null
           => /\ currentFilePath # Null
              /\ The(currentFilePath).abs
              /\ The(currentBaseDir) = Abs(Parent(The(currentFilePath).segs))
    /\ (currentFilePath # Null /\ ~The(currentFilePath).abs)
           => currentBaseDir = Null

\* a file was opened from disk (the host has enabled the file menu for
\* it), then content without a path was dropped over it
C22_Witness ==
    /\ menuState.fileMenuEnabled
    /\ currentFilePath = Some(Rel(<<"d.md">>))
    /\ currentBaseDir = Null
    /\ contentEl = rendered("D")

\* no one-way message is on its way in either direction
NoMessageInFlight == toView = <<>> /\ toHost = <<>>

\* C23: whenever no message is in flight between the two processes, the
\* font item checked in the host menu (menuState.checkedFont) names the font
\* the Render Surface currently applies; this holds after every interleaving
\* of font menu clicks with the startup syncFontMenu message the Render
\* Surface sends for its restored font.
C23_CheckedFontIsAppliedFont ==
    (viewStarted /\ NoMessageInFlight)
        => appliedFont(bodyClass) = appliedFont(fontClassOf(menuState.checkedFont))

\* C24: whenever currentProjectRoot is non-null it is the project root of
\* the file named by currentFilePath, so copy_project_path never copies the
\* root of a different document; this holds when a second file is opened
\* before the first file's findProjectRoot response arrives, when the new
\* file has no project root, and when content is dropped without a path.
C24_ProjectRootIsOfCurrentFile ==
    currentProjectRoot # Null
        => /\ currentFilePath # Null
           /\ The(currentFilePath).abs
           /\ findProjectRoot(gitDirs, cwd, The(currentFilePath)) = currentProjectRoot

FileMenuImpliesFile ==
    /\ menuState.fileMenuEnabled => currentFilePath # Null
    /\ ~hostStarted => ~menuState.fileMenuEnabled

\* the error branch of openFile sends nothing to the host, and only a
\* setFileMenuEnabled message with enabled = true turns the items on
OnlySuccessEnables ==
    /\ ViewReadFileFailed => toHost' = toHost
    /\ (~menuState.fileMenuEnabled /\ menuState'.fileMenuEnabled)
           => (HostOnSetFileMenuEnabled /\ Head(toHost).flag)

\* C25: the file-dependent menu items (copy paths, reveal, export) are
\* enabled only after a file has been opened successfully: in every
\* reachable state, menuState.fileMenuEnabled = true implies the Render
\* Surface's currentFilePath is non-null; fileMenuEnabled starts false and
\* a failed open never turns it on.
C25_FileMenuOnlyWithFile == [](FileMenuImpliesFile) /\ [][OnlySuccessEnables]_vars

\* an open has failed with no file shown before: the error panel is up, no
\* message is on its way and the file items are still disabled
C25_Witness ==
    /\ hostStarted
    /\ contentEl.kind = "error"
    /\ currentFilePath = Null
    /\ NoMessageInFlight
    /\ ~menuState.fileMenuEnabled
    /\ menu = Some(buildMenu(menuState))

\* the requests the menuAction handler is to send for an action name in
\* the current state of the Render Surface
requestsFor(action) ==
    IF currentFilePath = Null THEN {}
    ELSE IF action = "copy_file_path"
    THEN { Req("copyToClipboard", currentFilePath) }
    ELSE IF action = "copy_dir_path"
    THEN IF currentBaseDir # Null THEN { Req("copyToClipboard", currentBaseDir) } ELSE {}
    ELSE IF action = "copy_project_path"
    THEN IF currentProjectRoot # Null
         THEN { Req("copyToClipboard", currentProjectRoot) } ELSE {}
    ELSE IF action = "reveal_finder"
    THEN { Req("revealInFinder", currentFilePath) }
    ELSE {}

\* the handler sends those requests and nothing else, and changes no state
\* of the Render Surface
MenuActionSendsOnlyThose ==
    ViewOnMenuAction
        => /\ reqs' = reqs (+) SetToBag(requestsFor(Head(toView).text))
           /\ UNCHANGED <<viewDoc, viewFonts, lastAlert, readers, toHost, resps>>

\* in every state the handler would send the same for every action name,
\* the names of other menu items and of no menu item included
MenuActionTable ==
    \A action \in MenuActions \cup UnknownActions :
        menuActionRequest(action, currentFilePath, currentBaseDir, currentProjectRoot)
            = requestsFor(action)

\* C26: a menuAction message handled while no file is open (currentFilePath
\* is null) sends no request to the host and changes no state; while a file
\* is open, copy_file_path, copy_dir_path and copy_project_path send
\* copyToClipboard with exactly currentFilePath, currentBaseDir and
\* currentProjectRoot respectively (the latter two only when non-null),
\* reveal_finder sends revealInFinder with currentFilePath, and any other
\* action name sends nothing.
C26_MenuActionRequests == [](MenuActionTable) /\ [][MenuActionSendsOnlyThose]_vars

\* the handler has sent copyToClipboard for the directory of the open file
C26_Witness ==
    /\ currentBaseDir # Null
    /\ toView = <<>>
    /\ events = 1
    /\ \E r \in BagToSet(reqs) :
           /\ r.name = "copyToClipboard"
           /\ r.path = currentBaseDir
====
